---- MODULE Spec2Model ----
(***************************************************************************)
(* A model of the CodeTop data scripts:                                    *)
(*   fetch_codetop_data.py                 ("fetch")                       *)
(*   generate_comprehensive_problems_sql.py ("comprehensive")              *)
(*   generate_frequency_inserts.py         ("inserts")                     *)
(*   restore_global_frequency_stats.py     ("restore")                     *)
(*   generate_company_frequency_stats.py   ("company")                     *)
(*   final_chinese_data_fix.py             ("chinese_fix")                 *)
(* and of the metrics generators called on their own ("metrics").          *)
(* Each behaviour is one run of one script; Init picks the script and the  *)
(* inputs the environment hands it (the HTTP response, the data set, the   *)
(* state the random module starts in); the outcome of every command given  *)
(* to the database client is chosen when the command is submitted.         *)
(* Ratings and rates are kept in tenths (2.5 is 25), multipliers in        *)
(* hundredths.                                                             *)
(* Titles are sequences of one-character strings; the three characters    *)
(* that matter to a SQL string literal are the quote, the backslash and    *)
(* "any other character" (written "a").                                    *)
(***************************************************************************)
EXTENDS Integers, Sequences, FiniteSets, TLC

(* ------------------------------ bounds -------------------------------- *)
\* longest list of problems a run is fed
MaxProblems == 3
\* frequency scores ('value') range over 0..MaxValue
MaxValue == 1
\* difficulty levels range over 0..MaxLevel (1, 2, 3 are the valid ones)
MaxLevel == 4
\* longest title, in characters
MaxTitleLen == 3
\* batch_size of generate_problem_sql (100 in the source), scaled down
ProblemBatch == 2
\* batch_size of the frequency-stats generators (10 in the source), scaled down
StatsBatch == 2
\* how many entries of the frequency table a run uses (100, or the top 20 of
\* them per company, in the source)
DataLen == 3
\* range(1, 11) of final_chinese_data_fix: problems 1..FixProblems per company
FixProblems == 2
\* a draw of the random module is one of 0..DrawMax, scaled to the range asked for
DrawMax == 10
\* scores the generators are called with on their own: 0..MaxScore and 976
MaxScore == 24
\* states the random module can start in before it is seeded: 0..MaxEntropy
MaxEntropy == 1
\* ranks the generators are called with on their own: 1..MaxRank
MaxRank == 102
\* exit statuses a client subprocess can end with: 0..MaxExit
MaxExit == 1
\* longest title classify_tags is called with on its own, in characters
MaxTagTitleLen == 3
\* longest list generate_frequency_sql is called with on its own
MaxRecords == 3
\* problems[:50] of generate_frequency_sql, scaled down
FrequencyLimit == 2

VARIABLES
    script,       \* which script this run executes
    pc,           \* position of the run in the script's main
    response,     \* fetch: what the single GET comes back with
    input,        \* the raw list: payload 'list' (fetch) / codetop_data (comprehensive)
    data,         \* fetch: the value fetch_all_problems returned
    problems,     \* the list the run works on, once sorted
    sql_lines,    \* the lines / statements generated so far
    output_file,  \* the output file: whether it was created, and its lines
    tape,         \* the random module: the state its draws come from
    ndraws,       \* how many draws were taken from the stream
    args,         \* metrics: the arguments the generator is called with
    log,          \* the commands given to the database client, with their outcome
    batch_start,  \* the loop variable i of the batch loop
    total_inserted, \* total_inserted / total_generated / company_stats_count
    dept_inserted, \* total_generated of the department loop / dept_stats_count
    queries,      \* how many other commands (upserts, SELECTs, ALTERs) were submitted
    db_companies, \* the rows the sink returns for SELECT ... FROM companies
    db_departments, \* the rows the sink returns for SELECT ... FROM departments
    ci,           \* how many companies the current loop has finished
    di,           \* how many departments of the current company it has finished
    all_values,   \* the value tuples built for the current company
    table,        \* the sink: the rows of problem_frequency_stats
    first_table,  \* the rows the table held when the first run ended
    run,          \* 1 in the first run of the script, 2 once it was started again
    requests,     \* how many HTTP GETs the run has sent
    subprocesses, \* how many client subprocesses the run has started
    client,       \* a call of execute_mysql_command on its own: what the client
                  \* did, and what the call returned
    tags          \* a call of classify_tags on its own: the list it returned

fileVars == <<response, input, data, problems, sql_lines, output_file>>
execVars == <<tape, ndraws, args, log, batch_start, total_inserted, dept_inserted,
              queries, db_companies, db_departments, ci, di, all_values>>
loopVars == <<dept_inserted, db_companies, db_departments, ci, di, all_values>>
sinkVars == <<table, first_table, run>>
envVars == <<table, first_table, run, requests, subprocesses, client, tags>>
vars == <<script, pc, response, input, data, problems, sql_lines, output_file,
          tape, ndraws, args, log, batch_start, total_inserted, dept_inserted,
          queries, db_companies, db_departments, ci, di, all_values,
          table, first_table, run, requests, subprocesses, client, tags>>

(* ------------------------------ values -------------------------------- *)
Quote == "'"
Backslash == "\\"
Chars == {"a", Quote, Backslash}

RECURSIVE SeqsUpTo(_, _)
\* all sequences over S of length 0..n
SeqsUpTo(S, n) ==
    IF n = 0 THEN {<<>>}
    ELSE LET shorter == SeqsUpTo(S, n - 1)
         IN  shorter \cup {Append(s, x) : s \in {t \in shorter : Len(t) = n - 1}, x \in S}

Titles == SeqsUpTo(Chars, MaxTitleLen)

\* How an entry of the list can be shaped.
\*   ok                   a mapping with a 'leetcode' mapping inside
\*   not_mapping          the entry itself is not a mapping (a string, null)
\*   leetcode_not_mapping entry['leetcode'] is not a mapping (null)
\*   title_not_str        leetcode['title'] is not a string (a number)
Kinds == {"ok", "not_mapping", "leetcode_not_mapping", "title_not_str"}

\* What leetcode['slug_title'] can be: a slug, the empty string, null, or not
\* there at all.
NoSlugKey == "<missing>"
NullSlug == "<None>"
Slugs == {"two-sum", "", NullSlug, NoSlugKey}

\* the values of leetcode['frontend_question_id'], when the key is there
QuestionIds == {1, 146}

\* idx is the position of the entry in the raw list; qid is
\* frontend_question_id, there when has_id
Entry(kind, value, has_level, level, title) ==
    [idx |-> 0, kind |-> kind, value |-> value,
     has_level |-> has_level, level |-> level, title |-> title,
     slug |-> "two-sum", has_id |-> TRUE, qid |-> 1, company_name |-> "string"]

\* Entries that differ in position-relevant fields only (score and shape).
OrderingEntries ==
    {Entry(k, v, TRUE, 2, <<"a">>) : k \in Kinds \ {"not_mapping"}, v \in 0..MaxValue}
        \cup {Entry("not_mapping", 0, FALSE, 0, <<>>)}
\* Well-formed entries that differ in the normalised fields (level, title).
FieldEntries == {Entry("ok", 1, hl, l, t) : hl \in BOOLEAN, l \in 0..MaxLevel, t \in Titles}

\* Well-formed entries that differ in what the URL and the id are built from.
UrlEntries ==
    {[Entry("ok", v, TRUE, 1, <<"a">>) EXCEPT !.slug = sl, !.has_id = q # 0, !.qid = q] :
        v \in 0..MaxValue, sl \in Slugs, q \in {0} \cup QuestionIds}

\* Well-formed entries that differ in the company and the score;
\* company['company_name'] is a name with a display name of its own, any other
\* name, the text "null", or the empty string.
CompanyEntries ==
    {[Entry("ok", v, TRUE, 1, <<"a">>) EXCEPT !.company_name = c] :
        v \in 0..MaxValue, c \in {"leetcode", "string", "bytedance", "null", ""}}

\* every entry knows its position in the raw list (distinct)
WithIdx(s) == [i \in 1..Len(s) |-> [s[i] EXCEPT !.idx = i]]

\* The raw lists a run can be fed: any list of ordering entries, a single
\* entry with any level and title, or up to two entries with any slug and id.
InputLists ==
    {WithIdx(s) : s \in SeqsUpTo(OrderingEntries, MaxProblems)}
        \cup {WithIdx(<<e>>) : e \in FieldEntries}
        \cup {WithIdx(s) : s \in SeqsUpTo(UrlEntries, 2)}

\* an entry of the embedded data set: value, frontend_question_id, level,
\* slug_title, company_name and title
EmbeddedEntry(value, qid, level, slug, company_name, title) ==
    [idx |-> 0, kind |-> "ok", value |-> value,
     has_level |-> TRUE, level |-> level, title |-> title,
     slug |-> slug, has_id |-> TRUE, qid |-> qid, company_name |-> company_name]

\* lines 10-136: the data set generate_comprehensive_sql takes its problems
\* from, the lists of page_1 to page_5 one after the other (lines 167-172); a
\* character outside ASCII is written as its code point
codetop_data ==
    WithIdx(<<
      \* line 14: 无重复字符的最长子串
      EmbeddedEntry(976, 3, 2, "longest-substring-without-repeating-characters", "string",
          <<"U+65E0", "U+91CD", "U+590D", "U+5B57", "U+7B26", "U+7684", "U+6700", "U+957F", "U+5B50", "U+4E32">>),
      \* line 15: LRU缓存机制
      EmbeddedEntry(790, 146, 2, "lru-cache", "string",
          <<"L", "R", "U", "U+7F13", "U+5B58", "U+673A", "U+5236">>),
      \* line 16: 反转链表
      EmbeddedEntry(694, 206, 1, "reverse-linked-list", "string",
          <<"U+53CD", "U+8F6C", "U+94FE", "U+8868">>),
      \* line 17: 数组中的第K个最大元素
      EmbeddedEntry(545, 215, 2, "kth-largest-element-in-an-array", "string",
          <<"U+6570", "U+7EC4", "U+4E2D", "U+7684", "U+7B2C", "K", "U+4E2A", "U+6700", "U+5927", "U+5143", "U+7D20">>),
      \* line 18: K 个一组翻转链表
      EmbeddedEntry(454, 25, 3, "reverse-nodes-in-k-group", "string",
          <<"K", " ", "U+4E2A", "U+4E00", "U+7EC4", "U+7FFB", "U+8F6C", "U+94FE", "U+8868">>),
      \* line 19: 三数之和
      EmbeddedEntry(426, 15, 2, "3sum", "string",
          <<"U+4E09", "U+6570", "U+4E4B", "U+548C">>),
      \* line 20: 最大子数组和
      EmbeddedEntry(349, 53, 2, "maximum-subarray", "string",
          <<"U+6700", "U+5927", "U+5B50", "U+6570", "U+7EC4", "U+548C">>),
      \* line 21: 手撕快速排序
      EmbeddedEntry(316, 99990004, 2, "sort-an-array", "string",
          <<"U+624B", "U+6495", "U+5FEB", "U+901F", "U+6392", "U+5E8F">>),
      \* line 22: 合并两个有序链表
      EmbeddedEntry(304, 21, 1, "merge-two-sorted-lists", "string",
          <<"U+5408", "U+5E76", "U+4E24", "U+4E2A", "U+6709", "U+5E8F", "U+94FE", "U+8868">>),
      \* line 23: 最长回文子串
      EmbeddedEntry(296, 5, 2, "longest-palindromic-substring", "string",
          <<"U+6700", "U+957F", "U+56DE", "U+6587", "U+5B50", "U+4E32">>),
      \* line 24: 两数之和
      EmbeddedEntry(285, 1, 1, "two-sum", "string",
          <<"U+4E24", "U+6570", "U+4E4B", "U+548C">>),
      \* line 25: 二叉树的层序遍历
      EmbeddedEntry(285, 102, 2, "binary-tree-level-order-traversal", "string",
          <<"U+4E8C", "U+53C9", "U+6811", "U+7684", "U+5C42", "U+5E8F", "U+904D", "U+5386">>),
      \* line 26: 搜索旋转排序数组
      EmbeddedEntry(281, 33, 2, "search-in-rotated-sorted-array", "string",
          <<"U+641C", "U+7D22", "U+65CB", "U+8F6C", "U+6392", "U+5E8F", "U+6570", "U+7EC4">>),
      \* line 27: 岛屿数量
      EmbeddedEntry(276, 200, 2, "number-of-islands", "string",
          <<"U+5C9B", "U+5C7F", "U+6570", "U+91CF">>),
      \* line 28: 全排列
      EmbeddedEntry(270, 46, 2, "permutations", "string",
          <<"U+5168", "U+6392", "U+5217">>),
      \* line 29: 合并两个有序数组
      EmbeddedEntry(263, 88, 1, "merge-sorted-array", "string",
          <<"U+5408", "U+5E76", "U+4E24", "U+4E2A", "U+6709", "U+5E8F", "U+6570", "U+7EC4">>),
      \* line 30: 有效的括号
      EmbeddedEntry(262, 20, 1, "valid-parentheses", "string",
          <<"U+6709", "U+6548", "U+7684", "U+62EC", "U+53F7">>),
      \* line 31: 买卖股票的最佳时机
      EmbeddedEntry(252, 121, 1, "best-time-to-buy-and-sell-stock", "string",
          <<"U+4E70", "U+5356", "U+80A1", "U+7968", "U+7684", "U+6700", "U+4F73", "U+65F6", "U+673A">>),
      \* line 32: 二叉树的锯齿形层次遍历
      EmbeddedEntry(247, 103, 2, "binary-tree-zigzag-level-order-traversal", "string",
          <<"U+4E8C", "U+53C9", "U+6811", "U+7684", "U+952F", "U+9F7F", "U+5F62", "U+5C42", "U+6B21", "U+904D", "U+5386">>),
      \* line 33: 二叉树的最近公共祖先
      EmbeddedEntry(246, 236, 2, "lowest-common-ancestor-of-a-binary-tree", "string",
          <<"U+4E8C", "U+53C9", "U+6811", "U+7684", "U+6700", "U+8FD1", "U+516C", "U+5171", "U+7956", "U+5148">>),
      \* line 39: 反转链表 II
      EmbeddedEntry(243, 92, 2, "reverse-linked-list-ii", "leetcode",
          <<"U+53CD", "U+8F6C", "U+94FE", "U+8868", " ", "I", "I">>),
      \* line 40: 环形链表
      EmbeddedEntry(239, 141, 1, "linked-list-cycle", "leetcode",
          <<"U+73AF", "U+5F62", "U+94FE", "U+8868">>),
      \* line 41: 最长上升子序列
      EmbeddedEntry(230, 300, 2, "longest-increasing-subsequence", "leetcode",
          <<"U+6700", "U+957F", "U+4E0A", "U+5347", "U+5B50", "U+5E8F", "U+5217">>),
      \* line 42: 螺旋矩阵
      EmbeddedEntry(229, 54, 2, "spiral-matrix", "leetcode",
          <<"U+87BA", "U+65CB", "U+77E9", "U+9635">>),
      \* line 43: 重排链表
      EmbeddedEntry(219, 143, 2, "reorder-list", "leetcode",
          <<"U+91CD", "U+6392", "U+94FE", "U+8868">>),
      \* line 44: 合并K个排序链表
      EmbeddedEntry(218, 23, 3, "merge-k-sorted-lists", "leetcode",
          <<"U+5408", "U+5E76", "K", "U+4E2A", "U+6392", "U+5E8F", "U+94FE", "U+8868">>),
      \* line 45: 字符串相加
      EmbeddedEntry(209, 415, 1, "add-strings", "leetcode",
          <<"U+5B57", "U+7B26", "U+4E32", "U+76F8", "U+52A0">>),
      \* line 46: 合并区间
      EmbeddedEntry(200, 56, 2, "merge-intervals", "leetcode",
          <<"U+5408", "U+5E76", "U+533A", "U+95F4">>),
      \* line 47: 相交链表
      EmbeddedEntry(192, 160, 1, "intersection-of-two-linked-lists", "leetcode",
          <<"U+76F8", "U+4EA4", "U+94FE", "U+8868">>),
      \* line 48: 接雨水
      EmbeddedEntry(181, 42, 3, "trapping-rain-water", "leetcode",
          <<"U+63A5", "U+96E8", "U+6C34">>),
      \* line 49: 编辑距离
      EmbeddedEntry(178, 72, 3, "edit-distance", "leetcode",
          <<"U+7F16", "U+8F91", "U+8DDD", "U+79BB">>),
      \* line 50: 二叉树中的最大路径和
      EmbeddedEntry(171, 124, 3, "binary-tree-maximum-path-sum", "leetcode",
          <<"U+4E8C", "U+53C9", "U+6811", "U+4E2D", "U+7684", "U+6700", "U+5927", "U+8DEF", "U+5F84", "U+548C">>),
      \* line 51: 最长公共子序列
      EmbeddedEntry(169, 1143, 2, "longest-common-subsequence", "leetcode",
          <<"U+6700", "U+957F", "U+516C", "U+5171", "U+5B50", "U+5E8F", "U+5217">>),
      \* line 52: 复原IP地址
      EmbeddedEntry(167, 93, 2, "restore-ip-addresses", "leetcode",
          <<"U+590D", "U+539F", "I", "P", "U+5730", "U+5740">>),
      \* line 53: 删除排序链表中的重复元素 II
      EmbeddedEntry(164, 82, 2, "remove-duplicates-from-sorted-list-ii", "leetcode",
          <<"U+5220", "U+9664", "U+6392", "U+5E8F", "U+94FE", "U+8868", "U+4E2D", "U+7684", "U+91CD", "U+590D", "U+5143", "U+7D20", " ", "I", "I">>),
      \* line 54: 环形链表 II
      EmbeddedEntry(164, 142, 2, "linked-list-cycle-ii", "leetcode",
          <<"U+73AF", "U+5F62", "U+94FE", "U+8868", " ", "I", "I">>),
      \* line 55: 删除链表的倒数第N个节点
      EmbeddedEntry(163, 19, 2, "remove-nth-node-from-end-of-list", "leetcode",
          <<"U+5220", "U+9664", "U+94FE", "U+8868", "U+7684", "U+5012", "U+6570", "U+7B2C", "N", "U+4E2A", "U+8282", "U+70B9">>),
      \* line 56: 寻找两个正序数组的中位数
      EmbeddedEntry(152, 4, 3, "median-of-two-sorted-arrays", "leetcode",
          <<"U+5BFB", "U+627E", "U+4E24", "U+4E2A", "U+6B63", "U+5E8F", "U+6570", "U+7EC4", "U+7684", "U+4E2D", "U+4F4D", "U+6570">>),
      \* line 57: 二叉树的右视图
      EmbeddedEntry(145, 199, 2, "binary-tree-right-side-view", "leetcode",
          <<"U+4E8C", "U+53C9", "U+6811", "U+7684", "U+53F3", "U+89C6", "U+56FE">>),
      \* line 58: 比较版本号
      EmbeddedEntry(141, 165, 2, "compare-version-numbers", "leetcode",
          <<"U+6BD4", "U+8F83", "U+7248", "U+672C", "U+53F7">>),
      \* line 64: 二叉树的中序遍历
      EmbeddedEntry(139, 94, 1, "binary-tree-inorder-traversal", "leetcode",
          <<"U+4E8C", "U+53C9", "U+6811", "U+7684", "U+4E2D", "U+5E8F", "U+904D", "U+5386">>),
      \* line 65: 二分查找
      EmbeddedEntry(136, 704, 1, "binary-search", "leetcode",
          <<"U+4E8C", "U+5206", "U+67E5", "U+627E">>),
      \* line 66: 括号生成
      EmbeddedEntry(134, 22, 2, "generate-parentheses", "leetcode",
          <<"U+62EC", "U+53F7", "U+751F", "U+6210">>),
      \* line 67: 用栈实现队列
      EmbeddedEntry(134, 232, 1, "implement-queue-using-stacks", "leetcode",
          <<"U+7528", "U+6808", "U+5B9E", "U+73B0", "U+961F", "U+5217">>),
      \* line 68: 滑动窗口最大值
      EmbeddedEntry(132, 239, 3, "sliding-window-maximum", "leetcode",
          <<"U+6ED1", "U+52A8", "U+7A97", "U+53E3", "U+6700", "U+5927", "U+503C">>),
      \* line 69: 排序链表
      EmbeddedEntry(132, 148, 2, "sort-list", "leetcode",
          <<"U+6392", "U+5E8F", "U+94FE", "U+8868">>),
      \* line 70: 下一个排列
      EmbeddedEntry(130, 31, 2, "next-permutation", "leetcode",
          <<"U+4E0B", "U+4E00", "U+4E2A", "U+6392", "U+5217">>),
      \* line 71: x 的平方根
      EmbeddedEntry(128, 69, 1, "sqrtx", "leetcode",
          <<"x", " ", "U+7684", "U+5E73", "U+65B9", "U+6839">>),
      \* line 72: 最长有效括号
      EmbeddedEntry(125, 32, 3, "longest-valid-parentheses", "leetcode",
          <<"U+6700", "U+957F", "U+6709", "U+6548", "U+62EC", "U+53F7">>),
      \* line 73: 字符串转换整数 (atoi)
      EmbeddedEntry(124, 8, 2, "string-to-integer-atoi", "leetcode",
          <<"U+5B57", "U+7B26", "U+4E32", "U+8F6C", "U+6362", "U+6574", "U+6570", " ", "(", "a", "t", "o", "i", ")">>),
      \* line 74: 两数相加
      EmbeddedEntry(124, 2, 2, "add-two-numbers", "leetcode",
          <<"U+4E24", "U+6570", "U+76F8", "U+52A0">>),
      \* line 75: 爬楼梯
      EmbeddedEntry(122, 70, 1, "climbing-stairs", "leetcode",
          <<"U+722C", "U+697C", "U+68AF">>),
      \* line 76: 零钱兑换
      EmbeddedEntry(120, 322, 2, "coin-change", "leetcode",
          <<"U+96F6", "U+94B1", "U+5151", "U+6362">>),
      \* line 77: 字符串相乘
      EmbeddedEntry(115, 43, 2, "multiply-strings", "leetcode",
          <<"U+5B57", "U+7B26", "U+4E32", "U+76F8", "U+4E58">>),
      \* line 78: 最小覆盖子串
      EmbeddedEntry(114, 76, 3, "minimum-window-substring", "leetcode",
          <<"U+6700", "U+5C0F", "U+8986", "U+76D6", "U+5B50", "U+4E32">>),
      \* line 79: 缺失的第一个正数
      EmbeddedEntry(108, 41, 3, "first-missing-positive", "leetcode",
          <<"U+7F3A", "U+5931", "U+7684", "U+7B2C", "U+4E00", "U+4E2A", "U+6B63", "U+6570">>),
      \* line 80: 从前序与中序遍历序列构造二叉树
      EmbeddedEntry(103, 105, 2, "construct-binary-tree-from-preorder-and-inorder-traversal", "leetcode",
          <<"U+4ECE", "U+524D", "U+5E8F", "U+4E0E", "U+4E2D", "U+5E8F", "U+904D", "U+5386", "U+5E8F", "U+5217", "U+6784", "U+9020", "U+4E8C", "U+53C9", "U+6811">>),
      \* line 81: 链表中倒数第k个节点
      EmbeddedEntry(102, 22, 1, "lian-biao-zhong-dao-shu-di-kge-jie-dian-lcof", "leetcode",
          <<"U+94FE", "U+8868", "U+4E2D", "U+5012", "U+6570", "U+7B2C", "k", "U+4E2A", "U+8282", "U+70B9">>),
      \* line 82: 翻转字符串里的单词
      EmbeddedEntry(100, 151, 2, "reverse-words-in-a-string", "leetcode",
          <<"U+7FFB", "U+8F6C", "U+5B57", "U+7B26", "U+4E32", "U+91CC", "U+7684", "U+5355", "U+8BCD">>),
      \* line 83: 子集
      EmbeddedEntry(99, 78, 2, "subsets", "leetcode",
          <<"U+5B50", "U+96C6">>),
      \* line 89: 求根到叶子节点数字之和
      EmbeddedEntry(96, 129, 2, "sum-root-to-leaf-numbers", "leetcode",
          <<"U+6C42", "U+6839", "U+5230", "U+53F6", "U+5B50", "U+8282", "U+70B9", "U+6570", "U+5B57", "U+4E4B", "U+548C">>),
      \* line 90: 最小栈
      EmbeddedEntry(94, 155, 1, "min-stack", "leetcode",
          <<"U+6700", "U+5C0F", "U+6808">>),
      \* line 91: 在排序数组中查找元素的第一个和最后一个位置
      EmbeddedEntry(91, 34, 2, "find-first-and-last-position-of-element-in-sorted-array", "leetcode",
          <<"U+5728", "U+6392", "U+5E8F", "U+6570", "U+7EC4", "U+4E2D", "U+67E5", "U+627E", "U+5143", "U+7D20", "U+7684", "U+7B2C", "U+4E00", "U+4E2A", "U+548C", "U+6700", "U+540E", "U+4E00", "U+4E2A", "U+4F4D", "U+7F6E">>),
      \* line 92: 字符串解码
      EmbeddedEntry(90, 394, 2, "decode-string", "leetcode",
          <<"U+5B57", "U+7B26", "U+4E32", "U+89E3", "U+7801">>),
      \* line 93: 对称二叉树
      EmbeddedEntry(90, 101, 1, "symmetric-tree", "leetcode",
          <<"U+5BF9", "U+79F0", "U+4E8C", "U+53C9", "U+6811">>),
      \* line 94: 用 Rand7() 实现 Rand10()
      EmbeddedEntry(86, 470, 2, "implement-rand10-using-rand7", "leetcode",
          <<"U+7528", " ", "R", "a", "n", "d", "7", "(", ")", " ", "U+5B9E", "U+73B0", " ", "R", "a", "n", "d", "1", "0", "(", ")">>),
      \* line 95: 组合总和
      EmbeddedEntry(86, 39, 2, "combination-sum", "leetcode",
          <<"U+7EC4", "U+5408", "U+603B", "U+548C">>),
      \* line 96: 二叉树的最大深度
      EmbeddedEntry(86, 104, 1, "maximum-depth-of-binary-tree", "leetcode",
          <<"U+4E8C", "U+53C9", "U+6811", "U+7684", "U+6700", "U+5927", "U+6DF1", "U+5EA6">>),
      \* line 97: 最小路径和
      EmbeddedEntry(85, 64, 2, "minimum-path-sum", "leetcode",
          <<"U+6700", "U+5C0F", "U+8DEF", "U+5F84", "U+548C">>),
      \* line 98: 二叉树的前序遍历
      EmbeddedEntry(84, 144, 1, "binary-tree-preorder-traversal", "leetcode",
          <<"U+4E8C", "U+53C9", "U+6811", "U+7684", "U+524D", "U+5E8F", "U+904D", "U+5386">>),
      \* line 99: 平衡二叉树
      EmbeddedEntry(83, 110, 1, "balanced-binary-tree", "leetcode",
          <<"U+5E73", "U+8861", "U+4E8C", "U+53C9", "U+6811">>),
      \* line 100: 买卖股票的最佳时机 II
      EmbeddedEntry(81, 122, 1, "best-time-to-buy-and-sell-stock-ii", "leetcode",
          <<"U+4E70", "U+5356", "U+80A1", "U+7968", "U+7684", "U+6700", "U+4F73", "U+65F6", "U+673A", " ", "I", "I">>),
      \* line 101: 旋转图像
      EmbeddedEntry(81, 48, 2, "rotate-image", "leetcode",
          <<"U+65CB", "U+8F6C", "U+56FE", "U+50CF">>),
      \* line 102: 最长连续序列
      EmbeddedEntry(81, 128, 2, "longest-consecutive-sequence", "leetcode",
          <<"U+6700", "U+957F", "U+8FDE", "U+7EED", "U+5E8F", "U+5217">>),
      \* line 103: 最大正方形
      EmbeddedEntry(80, 221, 2, "maximal-square", "leetcode",
          <<"U+6700", "U+5927", "U+6B63", "U+65B9", "U+5F62">>),
      \* line 104: 回文链表
      EmbeddedEntry(80, 234, 1, "palindrome-linked-list", "leetcode",
          <<"U+56DE", "U+6587", "U+94FE", "U+8868">>),
      \* line 105: 搜索二维矩阵 II
      EmbeddedEntry(79, 240, 2, "search-a-2d-matrix-ii", "leetcode",
          <<"U+641C", "U+7D22", "U+4E8C", "U+7EF4", "U+77E9", "U+9635", " ", "I", "I">>),
      \* line 106: 验证二叉搜索树
      EmbeddedEntry(79, 98, 2, "validate-binary-search-tree", "leetcode",
          <<"U+9A8C", "U+8BC1", "U+4E8C", "U+53C9", "U+641C", "U+7D22", "U+6811">>),
      \* line 107: 二叉树的直径
      EmbeddedEntry(79, 543, 1, "diameter-of-binary-tree", "leetcode",
          <<"U+4E8C", "U+53C9", "U+6811", "U+7684", "U+76F4", "U+5F84">>),
      \* line 108: 岛屿的最大面积
      EmbeddedEntry(78, 695, 2, "max-area-of-island", "leetcode",
          <<"U+5C9B", "U+5C7F", "U+7684", "U+6700", "U+5927", "U+9762", "U+79EF">>),
      \* line 114: 寻找峰值
      EmbeddedEntry(76, 162, 2, "find-peak-element", "null",
          <<"U+5BFB", "U+627E", "U+5CF0", "U+503C">>),
      \* line 115: 最长公共前缀
      EmbeddedEntry(76, 14, 1, "longest-common-prefix", "null",
          <<"U+6700", "U+957F", "U+516C", "U+5171", "U+524D", "U+7F00">>),
      \* line 116: 二叉树最大宽度
      EmbeddedEntry(74, 662, 2, "maximum-width-of-binary-tree", "null",
          <<"U+4E8C", "U+53C9", "U+6811", "U+6700", "U+5927", "U+5BBD", "U+5EA6">>),
      \* line 117: 路径总和 II
      EmbeddedEntry(74, 113, 2, "path-sum-ii", "null",
          <<"U+8DEF", "U+5F84", "U+603B", "U+548C", " ", "I", "I">>),
      \* line 118: 最大数
      EmbeddedEntry(74, 179, 2, "largest-number", "null",
          <<"U+6700", "U+5927", "U+6570">>),
      \* line 119: 不同路径
      EmbeddedEntry(72, 62, 2, "unique-paths", "null",
          <<"U+4E0D", "U+540C", "U+8DEF", "U+5F84">>),
      \* line 120: 打家劫舍
      EmbeddedEntry(70, 198, 2, "house-robber", "null",
          <<"U+6253", "U+5BB6", "U+52AB", "U+820D">>),
      \* line 121: 乘积最大子数组
      EmbeddedEntry(70, 152, 2, "maximum-product-subarray", "null",
          <<"U+4E58", "U+79EF", "U+6700", "U+5927", "U+5B50", "U+6570", "U+7EC4">>),
      \* line 122: 路径总和
      EmbeddedEntry(68, 112, 1, "path-sum", "null",
          <<"U+8DEF", "U+5F84", "U+603B", "U+548C">>),
      \* line 123: 和为K的子数组
      EmbeddedEntry(67, 560, 2, "subarray-sum-equals-k", "null",
          <<"U+548C", "U+4E3A", "K", "U+7684", "U+5B50", "U+6570", "U+7EC4">>),
      \* line 124: 多数元素
      EmbeddedEntry(66, 169, 1, "majority-element", "null",
          <<"U+591A", "U+6570", "U+5143", "U+7D20">>),
      \* line 125: 基本计算器 II
      EmbeddedEntry(66, 227, 2, "basic-calculator-ii", "null",
          <<"U+57FA", "U+672C", "U+8BA1", "U+7B97", "U+5668", " ", "I", "I">>),
      \* line 126: 翻转二叉树
      EmbeddedEntry(65, 226, 1, "invert-binary-tree", "null",
          <<"U+7FFB", "U+8F6C", "U+4E8C", "U+53C9", "U+6811">>),
      \* line 127: 长度最小的子数组
      EmbeddedEntry(65, 209, 2, "minimum-size-subarray-sum", "null",
          <<"U+957F", "U+5EA6", "U+6700", "U+5C0F", "U+7684", "U+5B50", "U+6570", "U+7EC4">>),
      \* line 128: 单词拆分
      EmbeddedEntry(64, 139, 2, "word-break", "null",
          <<"U+5355", "U+8BCD", "U+62C6", "U+5206">>),
      \* line 129: 删除排序链表中的重复元素
      EmbeddedEntry(64, 83, 1, "remove-duplicates-from-sorted-list", "null",
          <<"U+5220", "U+9664", "U+6392", "U+5E8F", "U+94FE", "U+8868", "U+4E2D", "U+7684", "U+91CD", "U+590D", "U+5143", "U+7D20">>),
      \* line 130: 最长重复子数组
      EmbeddedEntry(64, 718, 2, "maximum-length-of-repeated-subarray", "null",
          <<"U+6700", "U+957F", "U+91CD", "U+590D", "U+5B50", "U+6570", "U+7EC4">>),
      \* line 131: 两两交换链表中的节点
      EmbeddedEntry(62, 24, 2, "swap-nodes-in-pairs", "null",
          <<"U+4E24", "U+4E24", "U+4EA4", "U+6362", "U+94FE", "U+8868", "U+4E2D", "U+7684", "U+8282", "U+70B9">>),
      \* line 132: 移动零
      EmbeddedEntry(60, 283, 1, "move-zeroes", "null",
          <<"U+79FB", "U+52A8", "U+96F6">>),
      \* line 133: 手撕堆排序
      EmbeddedEntry(59, 99990006, 2, "sort-an-array", "null",
          <<"U+624B", "U+6495", "U+5806", "U+6392", "U+5E8F">>)
    >>)

WellFormedLists == {s \in InputLists : \A i \in 1..Len(s) : s[i].kind = "ok"}

Responses == {"network_error", "bad_status", "bad_json", "not_object",
              "empty_object", "no_list", "ok"}

EmptyDict == [nonempty |-> FALSE, has_list |-> FALSE]
NoFile == [created |-> FALSE, lines |-> <<>>]

(* ---------------- fetch_codetop_data.py: pure functions --------------- *)
\* mapping.get(level, 'MEDIUM') with a default that drops the fallback
map_difficulty_no_default(level) ==
    CASE level = 1 -> "EASY"
      [] level = 2 -> "MEDIUM"
      [] level = 3 -> "HARD"
      [] OTHER -> "EASY"

map_difficulty(level) ==
    CASE level = 1 -> "EASY"
      [] level = 2 -> "MEDIUM"
      [] level = 3 -> "HARD"
      [] OTHER -> "MEDIUM"

difficulty_level_to_name(level) ==
    CASE level = 1 -> "EASY"
      [] level = 2 -> "MEDIUM"
      [] level = 3 -> "HARD"
      [] OTHER -> "MEDIUM"

RECURSIVE Replace(_, _, _)
\* str.replace(old, new) for a one-character old
Replace(s, old, new) ==
    IF s = <<>> THEN <<>>
    ELSE (IF Head(s) = old THEN new ELSE <<Head(s)>>) \o Replace(Tail(s), old, new)

\* line 150: title.replace("'", "''")
escape_title(title) == Replace(title, Quote, <<Quote, Quote>>)

\* line 214: title.replace("'", "\\'")
escape_title_backslash(title) == Replace(title, Quote, <<Backslash, Quote>>)

(* ---------------------------- classify_tags --------------------------- *)
\* A title is the sequence of its characters; a character outside ASCII is
\* written as its code point ("U+6700" is the first character of line 82's
\* second keyword), a tag as the code points of its characters in a row.

\* 'word in title': word occurs in title as a run of consecutive characters
Occurs(word, title) ==
    \E i \in 1..(Len(title) - Len(word) + 1) :
        SubSeq(title, i, i + Len(word) - 1) = word

\* lines 82-107: the keyword rules, in the order the function tests them
TagRules ==
    <<
     \* line 82: 数组 <- 数组, 最大, 最小, 第K个, 合并, 排序
     [tag |-> "U+6570U+7EC4",
      words |-> {<<"U+6570", "U+7EC4">>,
                 <<"U+6700", "U+5927">>,
                 <<"U+6700", "U+5C0F">>,
                 <<"U+7B2C", "K", "U+4E2A">>,
                 <<"U+5408", "U+5E76">>,
                 <<"U+6392", "U+5E8F">>}],
     \* line 84: 字符串 <- 字符串, 子串, 回文
     [tag |-> "U+5B57U+7B26U+4E32",
      words |-> {<<"U+5B57", "U+7B26", "U+4E32">>,
                 <<"U+5B50", "U+4E32">>,
                 <<"U+56DE", "U+6587">>}],
     \* line 86: 链表 <- 链表, 反转, 合并
     [tag |-> "U+94FEU+8868",
      words |-> {<<"U+94FE", "U+8868">>,
                 <<"U+53CD", "U+8F6C">>,
                 <<"U+5408", "U+5E76">>}],
     \* line 88: 树 <- 二叉树, 树, 遍历
     [tag |-> "U+6811",
      words |-> {<<"U+4E8C", "U+53C9", "U+6811">>,
                 <<"U+6811">>,
                 <<"U+904D", "U+5386">>}],
     \* line 90: 哈希表 <- 哈希, LRU, 缓存
     [tag |-> "U+54C8U+5E0CU+8868",
      words |-> {<<"U+54C8", "U+5E0C">>,
                 <<"L", "R", "U">>,
                 <<"U+7F13", "U+5B58">>}],
     \* line 92: 二分查找 <- 搜索, 查找, 旋转
     [tag |-> "U+4E8CU+5206U+67E5U+627E",
      words |-> {<<"U+641C", "U+7D22">>,
                 <<"U+67E5", "U+627E">>,
                 <<"U+65CB", "U+8F6C">>}],
     \* line 94: 深度优先搜索 <- 岛屿, 图
     [tag |-> "U+6DF1U+5EA6U+4F18U+5148U+641CU+7D22",
      words |-> {<<"U+5C9B", "U+5C7F">>,
                 <<"U+56FE">>}],
     \* line 96: 广度优先搜索 <- 层序, 层次
     [tag |-> "U+5E7FU+5EA6U+4F18U+5148U+641CU+7D22",
      words |-> {<<"U+5C42", "U+5E8F">>,
                 <<"U+5C42", "U+6B21">>}],
     \* line 98: 回溯算法 <- 排列, 组合
     [tag |-> "U+56DEU+6EAFU+7B97U+6CD5",
      words |-> {<<"U+6392", "U+5217">>,
                 <<"U+7EC4", "U+5408">>}],
     \* line 100: 动态规划 <- 动态, 最优, 最长, 最大和
     [tag |-> "U+52A8U+6001U+89C4U+5212",
      words |-> {<<"U+52A8", "U+6001">>,
                 <<"U+6700", "U+4F18">>,
                 <<"U+6700", "U+957F">>,
                 <<"U+6700", "U+5927", "U+548C">>}],
     \* line 102: 栈 <- 栈, 括号
     [tag |-> "U+6808",
      words |-> {<<"U+6808">>,
                 <<"U+62EC", "U+53F7">>}],
     \* line 104: 排序 <- 快速排序, 排序
     [tag |-> "U+6392U+5E8F",
      words |-> {<<"U+5FEB", "U+901F", "U+6392", "U+5E8F">>,
                 <<"U+6392", "U+5E8F">>}],
     \* line 106: 双指针 <- 双指针, 三数之和, 两数之和
     [tag |-> "U+53CCU+6307U+9488",
      words |-> {<<"U+53CC", "U+6307", "U+9488">>,
                 <<"U+4E09", "U+6570", "U+4E4B", "U+548C">>,
                 <<"U+4E24", "U+6570", "U+4E4B", "U+548C">>}]
    >>

\* any(word in title for word in [...]) of rule k
RuleMatches(k, title) == \E word \in TagRules[k].words : Occurs(word, title)

RECURSIVE rule_tags(_, _)
\* lines 82-107: the tags appended by rules k, k+1, ..., each rule tested
\* whether or not an earlier one matched
rule_tags(k, title) ==
    IF k > Len(TagRules) THEN <<>>
    ELSE (IF RuleMatches(k, title) THEN <<TagRules[k].tag>> ELSE <<>>)
             \o rule_tags(k + 1, title)

\* lines 111-116: the default tag
default_tag(difficulty) ==
    CASE difficulty = "EASY" -> "U+57FAU+7840U+7B97U+6CD5"
      [] difficulty = "HARD" -> "U+9AD8U+7EA7U+7B97U+6CD5"
      [] OTHER -> "U+7B97U+6CD5"

\* the rules as an if / elif chain: only the first rule that matches appends
classify_tags_first_match(title, difficulty) ==
    LET matched == rule_tags(1, title)
    IN  IF matched = <<>> THEN <<default_tag(difficulty)>> ELSE <<Head(matched)>>

\* lines 73-118
classify_tags(title, difficulty) ==
    LET matched == rule_tags(1, title)
    IN  IF matched = <<>> THEN <<default_tag(difficulty)>> ELSE matched

(* ------------------------------ sorting ------------------------------- *)
\* x.get('value', 0): every modelled entry carries its score
SortKey(e) == e.value

\* the merge that puts the elements of b before the elements of a equal to them
MergeDescUnstable(a, b) ==
    LET pa(i) == i + Cardinality({j \in 1..Len(b) : SortKey(b[j]) >= SortKey(a[i])})
        pb(j) == j + Cardinality({i \in 1..Len(a) : SortKey(a[i]) > SortKey(b[j])})
    IN  [p \in 1..(Len(a) + Len(b)) |->
            IF \E i \in 1..Len(a) : pa(i) = p
            THEN a[CHOOSE i \in 1..Len(a) : pa(i) = p]
            ELSE b[CHOOSE j \in 1..Len(b) : pb(j) = p]]

\* the descending sequences a and b merged, the elements of a before the
\* elements of b equal to them: an element goes behind those of its own
\* sequence that precede it and those of the other that outrank it
MergeDesc(a, b) ==
    LET pa(i) == i + Cardinality({j \in 1..Len(b) : SortKey(b[j]) > SortKey(a[i])})
        pb(j) == j + Cardinality({i \in 1..Len(a) : SortKey(a[i]) >= SortKey(b[j])})
    IN  [p \in 1..(Len(a) + Len(b)) |->
            IF \E i \in 1..Len(a) : pa(i) = p
            THEN a[CHOOSE i \in 1..Len(a) : pa(i) = p]
            ELSE b[CHOOSE j \in 1..Len(b) : pb(j) = p]]

RECURSIVE SortDesc(_)
\* list.sort(key=..., reverse=True) / sorted(..., reverse=True): stable; the
\* halves are sorted and merged
SortDesc(s) ==
    IF Len(s) <= 1 THEN s
    ELSE LET h == Len(s) \div 2
         IN  MergeDesc(SortDesc(SubSeq(s, 1, h)), SortDesc(SubSeq(s, h + 1, Len(s))))

(* ------------------------- generate_problem_sql ----------------------- *)
NoValue == [src |-> 0, id |-> 0, title |-> <<>>, difficulty |-> "",
            problem_url |-> <<>>, leetcode_id |-> "", tags |-> <<>>]
Line(t, v, comma) == [t |-> t, v |-> v, comma |-> comma]
CommentLine == Line("comment", NoValue, FALSE)
BlankLine == Line("blank", NoValue, FALSE)
\* "INSERT INTO problems (...) VALUES"
InsertHeader == Line("insert", NoValue, FALSE)
\* "ON DUPLICATE KEY UPDATE ... updated_at = CURRENT_TIMESTAMP;"
UpsertClause == Line("upsert", NoValue, FALSE)

\* lines 147-173: does the body of the try raise for this item
Raises(item) == item.kind # "ok"

UrlBase == "https://leetcode.cn/problems/"

\* bool(slug): a non-empty string
Truthy(slug) == slug \notin {"", NullSlug}

\* line 151: leetcode_info.get('frontend_question_id', str(i+1)), as the text
\* the f-string of line 167 puts between the quotes
leetcode_id_of(item, i) == IF item.has_id THEN ToString(item.qid) ELSE ToString(i + 1)

\* line 153: leetcode_info.get('slug_title', '')
slug_of(item) == IF item.slug = NoSlugKey THEN "" ELSE item.slug

\* the URL built from the slug, whatever the slug is
problem_url_always_slug(slug, leetcode_id) == <<UrlBase, slug>>

\* lines 156-159: the URL, as the pieces the f-string joins
problem_url(slug, leetcode_id) ==
    IF Truthy(slug) THEN <<UrlBase, slug>>
    ELSE <<UrlBase, "problem-", leetcode_id>>

\* lines 148-168: the value tuple of a well-formed item, the i-th (0-based) of
\* the list
problem_value(item, i) ==
    [src |-> item.idx,
     id |-> 0,
     title |-> escape_title(item.title),
     difficulty |-> map_difficulty(IF item.has_level THEN item.level ELSE 2),
     problem_url |-> problem_url(slug_of(item), leetcode_id_of(item, i)),
     leetcode_id |-> leetcode_id_of(item, i),
     tags |-> classify_tags(escape_title(item.title),
                            map_difficulty(IF item.has_level THEN item.level ELSE 2))]

RECURSIVE problem_values_from(_, _)
\* lines 144-173: the loop over enumerate(problems) from the i-th item on,
\* skipping items that raise
problem_values_from(ps, i) ==
    IF i >= Len(ps) THEN <<>>
    ELSE (IF Raises(ps[i + 1]) THEN <<>> ELSE <<problem_value(ps[i + 1], i)>>)
             \o problem_values_from(ps, i + 1)

problem_values(ps) == problem_values_from(ps, 0)

Min(a, b) == IF a < b THEN a ELSE b
Max(a, b) == IF a > b THEN a ELSE b

\* lines 182-186: the value lines of one batch, the last without a comma
BatchValueLines(batch) ==
    [j \in 1..Len(batch) |-> Line("value", batch[j], j # Len(batch))]

RECURSIVE BatchLines(_, _, _)
\* lines 176-194: for i in range(0, len(values), batch_size), i 0-based
BatchLines(values, i, batch_size) ==
    IF i >= Len(values) THEN <<>>
    ELSE LET batch == SubSeq(values, i + 1, Min(i + batch_size, Len(values)))
         IN  (IF i > 0 THEN <<InsertHeader>> ELSE <<>>)
                 \o BatchValueLines(batch)
                 \o <<UpsertClause, BlankLine>>
                 \o BatchLines(values, i + batch_size, batch_size)

\* lines 137-196
generate_problem_sql(ps) ==
    <<CommentLine, CommentLine, CommentLine, BlankLine, InsertHeader>>
        \o BatchLines(problem_values(ps), 0, ProblemBatch)

(* ------------------------ generate_frequency_sql ---------------------- *)
\* item['value'] is a record: t is "int" for an integer n, "missing" when the
\* key is not there, "none" for null, "str" for a string. item['time'] is a
\* record: t is "iso" for an ISO date-time (of which the date is kept),
\* "missing" or "none".

\* lines 62-71: the date of an ISO date-time; '2025-08-01' when parsing raises
\* (the default '' of a missing key and None included: the except is bare)
format_date(date_str) == IF date_str.t = "iso" THEN date_str.date ELSE "2025-08-01"

\* lines 120-131, for an integer
get_frequency_level(frequency) ==
    IF frequency >= 600 THEN "VERY_HIGH"
    ELSE IF frequency >= 400 THEN "HIGH"
    ELSE IF frequency >= 200 THEN "MEDIUM"
    ELSE "LOW"

\* item.get('value', 0)
value_of(item) == IF item.value.t = "missing" THEN [t |-> "int", n |-> 0] ELSE item.value

\* whether the body of the loop of CASE c raises for the item: item.get and
\* leetcode_info.get (lines 212-213, 229-230, 245-246) raise when the item or
\* item['leetcode'] is not a mapping; the first loop alone calls
\* get_frequency_level (line 215), where frequency >= 600 raises TypeError for
\* None and for a string
when_raises(c, item) ==
    \/ item.kind # "ok"
    \/ c = 1 /\ value_of(item).t \in {"none", "str"}

\* lines 218, 233, 248: what the WHEN branch of CASE c gives for the item
when_then(c, item) ==
    CASE c = 1 -> [t |-> "level", text |-> get_frequency_level(value_of(item).n), n |-> 0]
      [] c = 2 -> [t |-> value_of(item).t, text |-> "", n |-> value_of(item).n]
      [] OTHER -> [t |-> "date", text |-> format_date(item.time), n |-> 0]

\* lines 211-221, 228-236, 243-251: the WHEN branches of CASE c, one for each
\* of the first 50 items whose loop body does not raise
when_lines(c, items) ==
    LET first == SubSeq(items, 1, Min(FrequencyLimit, Len(items)))
        kept == SelectSeq(first, LAMBDA item : ~when_raises(c, item))
    IN  [k \in 1..Len(kept) |->
            [t |-> "when", case |-> c, leetcode_id |-> kept[k].qid,
             then |-> when_then(c, kept[k])]]

\* lines 198-267: the three CASE expressions of the statement, each closed by
\* its ELSE branch (lines 223, 238, 253)
generate_frequency_sql(items) ==
    LET else_line(c) == [t |-> "else", case |-> c, leetcode_id |-> 0,
                         then |-> [t |-> "default", text |-> "", n |-> 0]]
    IN  when_lines(1, items) \o <<else_line(1)>>
            \o when_lines(2, items) \o <<else_line(2)>>
            \o when_lines(3, items) \o <<else_line(3)>>

(* ---------------------- generate_comprehensive_sql -------------------- *)
\* lines 212-231: one single-row INSERT per problem, id = 1-based position;
\* the embedded data set gives every problem a level, an id and a slug
comprehensive_value(problem, i) ==
    [src |-> problem.idx,
     id |-> i,
     title |-> escape_title_backslash(problem.title),
     difficulty |-> difficulty_level_to_name(problem.level),
     problem_url |-> <<UrlBase, problem.slug>>,
     leetcode_id |-> ToString(problem.qid)]

\* lines 169-170: company_name and company_name != "null"
has_company(problem) == problem.company_name \notin {"", "null"}

\* the company names an entry can carry, as sorted() orders them
CompanyNameOrder == <<"bytedance", "leetcode", "string">>

\* lines 164-171, 176: sorted(companies), the set of the names that pass
companies_of(all_problems) ==
    SelectSeq(CompanyNameOrder,
              LAMBDA c : \E i \in 1..Len(all_problems) :
                            has_company(all_problems[i]) /\ all_problems[i].company_name = c)

\* lines 177-186
display_name(company) ==
    CASE company = "string" -> "Generic Tech Company"
      [] company = "leetcode" -> "LeetCode Platform"
      [] OTHER -> company

\* lines 176-192: one INSERT INTO companies per name, id = 1-based position
company_lines(all_problems) ==
    LET companies == companies_of(all_problems)
    IN  [i \in 1..Len(companies) |->
            Line("insert_company",
                 [id |-> i, name |-> display_name(companies[i]), company |-> companies[i]],
                 FALSE)]

\* line 192: company_id_map[company] = i; 0 for a name that is not a key
company_id_map(all_problems, company) ==
    LET companies == companies_of(all_problems)
    IN  IF \E i \in 1..Len(companies) : companies[i] = company
        THEN CHOOSE i \in 1..Len(companies) : companies[i] = company
        ELSE 0

\* an association for every problem, whatever its company name
associated_always(all_problems, problem) == TRUE

\* line 241: company_name and company_name != "null" and company_name in
\* company_id_map
associated(all_problems, problem) ==
    has_company(problem) /\ company_id_map(all_problems, problem.company_name) # 0

\* lines 237-249: one INSERT INTO problem_companies per associated problem,
\* association_id counting from 1, problem_id the 1-based position of the
\* problem in the sorted list
association_lines(all_problems) ==
    LET sorted_problems == SortDesc(all_problems)
        positions == SelectSeq([i \in 1..Len(sorted_problems) |-> i],
                               LAMBDA i : associated(all_problems, sorted_problems[i]))
    IN  [a \in 1..Len(positions) |->
            Line("insert_association",
                 [id |-> a, problem_id |-> positions[a],
                  company_id |-> company_id_map(all_problems,
                                                sorted_problems[positions[a]].company_name),
                  frequency_score |-> sorted_problems[positions[a]].value],
                 FALSE)]

\* lines 209-231: one INSERT INTO problems per problem, in sorted order
problem_lines(all_problems) ==
    LET sorted_problems == SortDesc(all_problems)
    IN  [i \in 1..Len(sorted_problems) |->
            Line("insert_problem", comprehensive_value(sorted_problems[i], i), FALSE)]

\* lines 174-249: the companies, the problems, the associations
generate_comprehensive_sql(all_problems) ==
    company_lines(all_problems) \o problem_lines(all_problems)
        \o association_lines(all_problems)

(* ------------------------------ the sink ------------------------------ *)
\* The companies and departments the sink can hold: (id, name). megvii and
\* devops are names the multiplier tables do not list.
COMPANIES == <<[id |-> 1, name |-> "bytedance"], [id |-> 2, name |-> "microsoft"],
               [id |-> 3, name |-> "megvii"]>>
DEPARTMENTS == <<[id |-> 1, name |-> "backend"], [id |-> 2, name |-> "devops"]>>

Range(f) == {f[i] : i \in DOMAIN f}
DistinctSeqs(S, n) == {s \in SeqsUpTo(S, n) : Cardinality(Range(s)) = Len(s)}

\* what a SELECT without ORDER BY can return: some of the rows, in some order
CompanyLists == DistinctSeqs(Range(COMPANIES), Len(COMPANIES))
DepartmentLists == DistinctSeqs(Range(DEPARTMENTS), Len(DEPARTMENTS))

\* companies[:10] of generate_company_frequency_stats: fewer than the sink holds
CompanyLimit == Len(COMPANIES) - 1
\* departments[:3] / companies_data[:3] / departments_data[:3], likewise
DeptLimit == Len(DEPARTMENTS) - 1
\* LIMIT 5 of the department loop's company query: half of companies[:10]
DeptCompanyLimit == Max(1, CompanyLimit \div 2)
\* PROBLEM_FREQUENCIES[:20] / [:10], scaled down
TopProblems == DataLen
TopDeptProblems == (DataLen + 1) \div 2

(* --------------------------- random module ---------------------------- *)
\* random.seed(42)
Seed == 42

\* the number the module yields at its k-th draw after it was put in the given
\* state, in 0..250 (a counter-based stand-in for the library's generator: what
\* matters is that the draws are a function of the state and of nothing else)
RngMix(state, k) == ((state + 11) * (k * k + 17 * k + 5) + 7 * k) % 251

\* the random module in the given state; fixed lists draws it is made to yield
\* first (a call of a generator on chosen draws)
Stream(state) == [fixed |-> <<>>, state |-> state % 256]
Fixed(draws) == [fixed |-> draws, state |-> 0]

\* the k-th raw draw of the module t, in 0..DrawMax
Draw(t, k) ==
    IF k <= Len(t.fixed) THEN t.fixed[k]
    ELSE (RngMix(t.state, k - Len(t.fixed)) * (DrawMax + 1)) \div 251

\* random.randint(a, b) on the raw draw u
RandInt(a, b, u) == a + (u * (b - a + 1)) \div (DrawMax + 1)

\* the draw taken for a fraction of the range without being scaled to one
uniform_unscaled(a, b, u) == a + (b - a) * u

\* round(random.uniform(a, b), 1) on the raw draw u, a and b in tenths
Uniform(a, b, u) == a + ((b - a) * u) \div DrawMax

(* --------------------------- metrics generators ----------------------- *)
\* the clamp without its upper bound
clamp_unique_no_min(unique_interviewers, interview_count) ==
    Max(1, unique_interviewers)

\* max(1, min(unique_interviewers, interview_count))
clamp_unique(unique_interviewers, interview_count) ==
    Max(1, Min(unique_interviewers, interview_count))

\* the quotient taken as it comes, 0 for a score below the divisor
base_interviews_no_floor(frequency_score, divisor) == frequency_score \div divisor

\* base_interviews = max(1, int(frequency_score / divisor))
base_interviews(frequency_score, divisor) == Max(1, frequency_score \div divisor)

Bundle(ic, ui, pct, diff, rate, time) ==
    [interview_count |-> ic, unique_interviewers |-> ui, percentile |-> pct,
     avg_difficulty_rating |-> diff, success_rate |-> rate,
     avg_solve_time_minutes |-> time]

\* generate_frequency_inserts.py lines 25-70; t is the stream, n the draws taken
generate_interview_metrics(frequency_score, rank, t, n) ==
    LET interview_count ==
            Max(1, base_interviews(frequency_score, 5) + RandInt(-5, 5, Draw(t, n + 1)))
        unique_interviewers ==
            clamp_unique(Max(1, interview_count \div 2 + RandInt(-2, 2, Draw(t, n + 2))),
                         interview_count)
        percentile == 101 - rank
        avg_difficulty ==
            IF rank <= 20 THEN Uniform(20, 35, Draw(t, n + 3))
            ELSE IF rank <= 50 THEN Uniform(25, 40, Draw(t, n + 3))
            ELSE Uniform(30, 45, Draw(t, n + 3))
        success_rate ==
            IF avg_difficulty <= 25 THEN Uniform(700, 900, Draw(t, n + 4))
            ELSE IF avg_difficulty <= 35 THEN Uniform(500, 750, Draw(t, n + 4))
            ELSE Uniform(300, 600, Draw(t, n + 4))
        solve_time ==
            IF avg_difficulty <= 25 THEN RandInt(10, 20, Draw(t, n + 5))
            ELSE IF avg_difficulty <= 35 THEN RandInt(20, 35, Draw(t, n + 5))
            ELSE RandInt(35, 50, Draw(t, n + 5))
    IN  [m |-> Bundle(interview_count, unique_interviewers, percentile,
                      avg_difficulty, success_rate, solve_time),
         n |-> n + 5]

\* restore_global_frequency_stats.py lines 38-83
generate_global_metrics(frequency_score, rank, t, n) ==
    LET interview_count ==
            Max(1, base_interviews(frequency_score, 5) + RandInt(-5, 5, Draw(t, n + 1)))
        unique_interviewers ==
            clamp_unique(Max(1, (interview_count * 6) \div 10 + RandInt(-3, 3, Draw(t, n + 2))),
                         interview_count)
        percentile == 101 - rank
        avg_difficulty ==
            IF rank <= 20 THEN Uniform(25, 38, Draw(t, n + 3))
            ELSE IF rank <= 50 THEN Uniform(28, 42, Draw(t, n + 3))
            ELSE Uniform(32, 45, Draw(t, n + 3))
        success_rate ==
            IF avg_difficulty <= 25 THEN Uniform(750, 920, Draw(t, n + 4))
            ELSE IF avg_difficulty <= 35 THEN Uniform(500, 780, Draw(t, n + 4))
            ELSE Uniform(280, 580, Draw(t, n + 4))
        solve_time ==
            IF avg_difficulty <= 25 THEN RandInt(10, 22, Draw(t, n + 5))
            ELSE IF avg_difficulty <= 35 THEN RandInt(18, 38, Draw(t, n + 5))
            ELSE RandInt(32, 55, Draw(t, n + 5))
    IN  [m |-> Bundle(interview_count, unique_interviewers, percentile,
                      avg_difficulty, success_rate, solve_time),
         n |-> n + 5]

\* generate_company_frequency_stats.py lines 123-171
generate_realistic_metrics(frequency_score, scope_type, rank_within_scope, t, n) ==
    LET interview_count ==
            Max(1, base_interviews(frequency_score, 8) + RandInt(-3, 3, Draw(t, n + 1)))
        unique_ratio == IF scope_type = "COMPANY" THEN 6 ELSE 4
        unique_interviewers ==
            clamp_unique(Max(1, (interview_count * unique_ratio) \div 10
                                    + RandInt(-1, 1, Draw(t, n + 2))),
                         interview_count)
        percentile == Max(1, 101 - rank_within_scope)
        avg_difficulty ==
            IF scope_type = "COMPANY" THEN Uniform(22, 40, Draw(t, n + 3))
            ELSE Uniform(25, 42, Draw(t, n + 3))
        success_rate ==
            IF avg_difficulty <= 25 THEN Uniform(650, 850, Draw(t, n + 4))
            ELSE IF avg_difficulty <= 35 THEN Uniform(450, 700, Draw(t, n + 4))
            ELSE Uniform(250, 550, Draw(t, n + 4))
        solve_time ==
            IF avg_difficulty <= 25 THEN RandInt(12, 22, Draw(t, n + 5))
            ELSE IF avg_difficulty <= 35 THEN RandInt(22, 38, Draw(t, n + 5))
            ELSE RandInt(35, 55, Draw(t, n + 5))
    IN  [m |-> Bundle(interview_count, unique_interviewers, percentile,
                      avg_difficulty, success_rate, solve_time),
         n |-> n + 5]

(* ------------------------------ rows ---------------------------------- *)
\* One value tuple of an INSERT INTO problem_frequency_stats; gen names the
\* code that built it, company_id / department_id are 0 for NULL.
Row(gen, problem_id, company_id, department_id, score, rank, scope, m, days_ago, first_days_ago) ==
    [gen |-> gen, problem_id |-> problem_id, company_id |-> company_id,
     department_id |-> department_id, total_frequency_score |-> score,
     frequency_rank |-> rank, stats_scope |-> scope,
     interview_count |-> m.interview_count,
     unique_interviewers |-> m.unique_interviewers,
     percentile |-> m.percentile,
     avg_difficulty_rating |-> m.avg_difficulty_rating,
     success_rate |-> m.success_rate,
     avg_solve_time_minutes |-> m.avg_solve_time_minutes,
     days_ago |-> days_ago, first_days_ago |-> first_days_ago]

\* whether the text of a command ends in ON DUPLICATE KEY UPDATE: of the commands
\* the scripts execute, only the company / department upserts of the setup do
\* (company lines 179-198); the DELETEs and the INSERTs into
\* problem_frequency_stats end after their WHERE clause / VALUES list
on_duplicate_key_update(cmd) == cmd = "setup"

\* whether the runner of script s puts "SET NAMES utf8mb4; " before the
\* command: restore line 18 and final_chinese_data_fix line 17 do, inserts line
\* 76 and company line 67 pass the command as it is
set_names_prefix(s) == s \in {"restore", "chinese_fix"}

Command(cmd, rows, ok) ==
    [cmd |-> cmd, rows |-> rows, ok |-> ok, upsert |-> on_duplicate_key_update(cmd),
     set_names |-> set_names_prefix(script)]

(* --------------------------- command runner --------------------------- *)
\* what a client subprocess did: the status it exited with, and whether it
\* wrote anything to stderr (the client warns on stderr about the password
\* given on the command line, whatever the command does)
ClientOutcomes == [exit : 0..MaxExit, stderr : BOOLEAN]
Succeeded == [exit |-> 0, stderr |-> FALSE]
Failed == [exit |-> 1, stderr |-> TRUE]

\* the runner starting the client a second time when the first one failed
execute_mysql_command_retry(out) ==
    [ok |-> out.exit = 0,
     text |-> IF out.exit = 0 THEN "stdout" ELSE "stderr",
     runs |-> IF out.exit = 0 THEN 1 ELSE 2]

\* the runner taking anything written to stderr for a failure
execute_mysql_command_stderr(out) ==
    [ok |-> out.exit = 0 /\ ~out.stderr,
     text |-> IF out.exit = 0 /\ ~out.stderr THEN "stdout" ELSE "stderr",
     runs |-> 1]

\* execute_mysql_command: one subprocess.run(..., capture_output=True,
\* check=True); CalledProcessError is raised on a nonzero exit status and on
\* nothing else. Returns (True, stdout) or (False, stderr); runs is the number
\* of subprocesses started.
execute_mysql_command(out) ==
    [ok |-> out.exit = 0,
     text |-> IF out.exit = 0 THEN "stdout" ELSE "stderr",
     runs |-> 1]

\* the subprocesses started for n_ok commands that succeed and n_failed that fail
client_runs(n_ok, n_failed) ==
    n_ok * execute_mysql_command(Succeeded).runs
        + n_failed * execute_mysql_command(Failed).runs

NoClient == [exit |-> 0, stderr |-> FALSE, returned |-> <<>>]

\* the first entries of frequency_data / PROBLEM_FREQUENCIES: entry i is (i, score)
PROBLEM_FREQUENCIES == <<976, 790, 694, 545, 454, 426, 349, 316, 304, 296>>

frequency_data == [i \in 1..DataLen |-> [problem_id |-> i, frequency_score |-> PROBLEM_FREQUENCIES[i]]]

\* generate_frequency_inserts.py lines 103-115: one value tuple, 6 draws
inserts_row(item, t, n) ==
    LET rank == item.problem_id
        g == generate_interview_metrics(item.frequency_score, rank, t, n)
        days_ago == RandInt(1, 7, Draw(t, g.n + 1))
    IN  [row |-> Row("interview", item.problem_id, 0, 0, item.frequency_score, rank,
                     "GLOBAL", g.m, days_ago, 0),
         n |-> g.n + 1]

\* restore_global_frequency_stats.py lines 111-129: one value tuple, 7 draws
restore_row(item, t, n) ==
    LET rank == item.problem_id
        g == generate_global_metrics(item.frequency_score, rank, t, n)
        days_ago == RandInt(1, 30, Draw(t, g.n + 1))
        first_days_ago == RandInt(90, 365, Draw(t, g.n + 2))
    IN  [row |-> Row("global", item.problem_id, 0, 0, item.frequency_score, rank,
                     "GLOBAL", g.m, days_ago, first_days_ago),
         n |-> g.n + 2]

global_row(s, item, t, n) ==
    IF s = "inserts" THEN inserts_row(item, t, n) ELSE restore_row(item, t, n)

RECURSIVE global_rows(_, _, _, _)
\* the loop over one batch: the value tuples, and the draws taken after it
global_rows(s, batch, t, n) ==
    IF batch = <<>> THEN [rows |-> <<>>, n |-> n]
    ELSE LET r == global_row(s, Head(batch), t, n)
             rest == global_rows(s, Tail(batch), t, r.n)
         IN  [rows |-> <<r.row>> \o rest.rows, n |-> rest.n]

(* ------------------------------ the table ----------------------------- *)
\* a DELETE whose WHERE clause names a scope no script writes
clear_matches_wrong_scope(s, row) == row.stats_scope = "POSITION"

\* the WHERE clause of the DELETE a script starts with:
\*   inserts      problem_id BETWEEN 1 AND 100 (the ids of frequency_data)
\*   restore      stats_scope = 'GLOBAL'
\*   company      stats_scope IN ('COMPANY', 'DEPARTMENT', 'POSITION')
\*   chinese_fix  stats_scope IN ('COMPANY', 'DEPARTMENT')
clear_matches(s, row) ==
    CASE s = "inserts" -> row.problem_id \in 1..Len(frequency_data)
      [] s = "restore" -> row.stats_scope = "GLOBAL"
      [] s = "company" -> row.stats_scope \in {"COMPANY", "DEPARTMENT", "POSITION"}
      [] OTHER -> row.stats_scope \in {"COMPANY", "DEPARTMENT"}

\* the table after the DELETE of script s
Cleared(s, t) == SelectSeq(t, LAMBDA row : ~clear_matches(s, row))

\* a row some earlier run left in the table
StaleRow(problem_id, company_id, department_id, scope) ==
    Row("stale", problem_id, company_id, department_id, 0, problem_id, scope,
        Bundle(1, 1, 1, 10, 0, 1), 0, 0)

\* what the table can hold when a run starts: nothing, or rows of earlier runs,
\* one of them for a problem beyond the ids of frequency_data
InitialTables ==
    {<<>>,
     <<StaleRow(1, 0, 0, "GLOBAL"), StaleRow(1, 1, 0, "COMPANY"),
       StaleRow(Len(frequency_data) + 1, 0, 0, "GLOBAL")>>}

(* ---------------- generate_company_frequency_stats.py ------------------ *)
\* lines 76-96: company_multipliers.get(company_name, 0.8), in hundredths
company_multiplier(company_name) ==
    CASE company_name = "bytedance" -> 120
      [] company_name = "alibaba" -> 110
      [] company_name = "tencent" -> 115
      [] company_name = "microsoft" -> 90
      [] company_name = "amazon" -> 80
      [] company_name = "meituan" -> 105
      [] company_name = "kuaishou" -> 100
      [] company_name = "baidu" -> 95
      [] company_name = "huawei" -> 100
      [] company_name = "jd" -> 90
      [] company_name = "didi" -> 85
      [] company_name = "pdd" -> 110
      [] company_name = "xiaomi" -> 90
      [] company_name = "netease" -> 85
      [] company_name = "shopee" -> 80
      [] company_name = "bilibili" -> 75
      [] company_name = "xiaohongshu" -> 70
      [] OTHER -> 80

\* lines 107-117: dept_multipliers.get(dept_name, 0.8), in hundredths
dept_multiplier(dept_name) ==
    CASE dept_name = "backend" -> 100
      [] dept_name = "frontend" -> 70
      [] dept_name = "client" -> 80
      [] dept_name = "algorithm" -> 130
      [] dept_name = "data" -> 110
      [] dept_name = "qa" -> 60
      [] dept_name = "swe" -> 90
      [] OTHER -> 80

\* the variation applied to the frequency as it is, for whatever company
get_company_frequency_variation_no_table(global_freq, company_name, u) ==
    LET variation == 80 + (40 * u) \div DrawMax
    IN  Max(1, (global_freq * 100 * variation) \div 10000)

\* lines 96-102: int(global_freq * multiplier * uniform(0.8, 1.2)), at least 1
get_company_frequency_variation(global_freq, company_name, u) ==
    LET variation == 80 + (40 * u) \div DrawMax
    IN  Max(1, (global_freq * company_multiplier(company_name) * variation) \div 10000)

\* lines 117-121: int(company_freq * multiplier * uniform(0.85, 1.15)), at least 1
get_department_frequency_variation(company_freq, dept_name, u) ==
    LET variation == 85 + (30 * u) \div DrawMax
    IN  Max(1, (company_freq * dept_multiplier(dept_name) * variation) \div 10000)

\* lines 235-238: (problem_id, company_freq) for the top problems, one draw each
company_problems(company_name, t, n) ==
    [k \in 1..TopProblems |->
        [problem_id |-> k,
         value |-> get_company_frequency_variation(PROBLEM_FREQUENCIES[k],
                                                    company_name, Draw(t, n + k))]]

\* lines 321-325: (problem_id, dept_freq), two draws each
dept_problems(company_name, dept_name, t, n) ==
    [k \in 1..TopDeptProblems |->
        [problem_id |-> k,
         value |-> get_department_frequency_variation(
                       get_company_frequency_variation(PROBLEM_FREQUENCIES[k],
                                                       company_name, Draw(t, n + 2 * k - 1)),
                       dept_name, Draw(t, n + 2 * k))]]

\* lines 245 / 332: enumerate(..., 1): the rank of the k-th sorted problem
rank_of_position(k) == k

\* lines 245-258 / 332-345: the value tuple of the k-th sorted problem, 6 draws
scope_row(scope, company_id, dept_id, sorted, k, t, n) ==
    LET rank == rank_of_position(k)
        g == generate_realistic_metrics(sorted[k].value, scope, rank, t, n + 6 * (k - 1))
        days_ago == RandInt(1, IF scope = "COMPANY" THEN 30 ELSE 60, Draw(t, g.n + 1))
    IN  Row("realistic", sorted[k].problem_id, company_id, dept_id, sorted[k].value,
            rank, scope, g.m, days_ago, IF scope = "COMPANY" THEN 120 ELSE 90)

\* lines 235-258: the value tuples of one company, and the draws taken after them
company_values(company, t, n) ==
    LET sorted == SortDesc(company_problems(company.name, t, n))
        n1 == n + TopProblems
    IN  [rows |-> [k \in 1..Len(sorted) |->
                      scope_row("COMPANY", company.id, 0, sorted, k, t, n1)],
         n |-> n1 + 6 * Len(sorted)]

\* lines 321-345: the value tuples of one company-department pair
dept_values(company, dept, t, n) ==
    LET sorted == SortDesc(dept_problems(company.name, dept.name, t, n))
        n1 == n + 2 * TopDeptProblems
    IN  [rows |-> [k \in 1..Len(sorted) |->
                      scope_row("DEPARTMENT", company.id, dept.id, sorted, k, t, n1)],
         n |-> n1 + 6 * Len(sorted)]

(* ---------------------- final_chinese_data_fix.py --------------------- *)
\* range(1, 6) of the department loop: half of range(1, 11)
FixDeptProblems == Max(1, FixProblems \div 2)

\* lines 126-138: the single row inserted for (company, problem_id), 6 draws
fix_company_row(company, problem_id, t, n) ==
    LET frequency == RandInt(200, 800, Draw(t, n + 1))
        interview_count == RandInt(20, 100, Draw(t, n + 2))
        success_rate == Uniform(400, 800, Draw(t, n + 3))
        days_ago == RandInt(1, 30, Draw(t, n + 4))
        avg_difficulty == Uniform(25, 40, Draw(t, n + 5))
        solve_time == RandInt(20, 45, Draw(t, n + 6))
    IN  Row("fix", problem_id, company.id, 0, frequency, problem_id, "COMPANY",
            Bundle(interview_count, interview_count \div 2, 101 - problem_id * 10,
                   avg_difficulty, success_rate, solve_time),
            days_ago, 0)

\* lines 151-163: the single row inserted for (company, dept, problem_id), 6 draws
fix_dept_row(company, dept, problem_id, t, n) ==
    LET frequency == RandInt(150, 600, Draw(t, n + 1))
        interview_count == RandInt(10, 50, Draw(t, n + 2))
        success_rate == Uniform(350, 750, Draw(t, n + 3))
        days_ago == RandInt(1, 60, Draw(t, n + 4))
        avg_difficulty == Uniform(28, 42, Draw(t, n + 5))
        solve_time == RandInt(25, 50, Draw(t, n + 6))
    IN  Row("fix", problem_id, company.id, dept.id, frequency, problem_id, "DEPARTMENT",
            Bundle(interview_count, interview_count \div 3, 101 - problem_id * 20,
                   avg_difficulty, success_rate, solve_time),
            days_ago, 0)

(* ------------------------------- Init --------------------------------- *)
NoArgs == [gen |-> "none", scope |-> "none", score |-> 0, rank |-> 0]

\* The generators and the scopes they are called with.
Generators == {<<"interview", "GLOBAL">>, <<"global", "GLOBAL">>,
               <<"realistic", "COMPANY">>, <<"realistic", "DEPARTMENT">>}
Scores == 0..MaxScore \cup {976}
Ranks == 1..MaxRank
Draws == 0..DrawMax
EdgeDraws == {0, DrawMax \div 2, DrawMax}

ExecScripts == {"inserts", "restore", "company", "chinese_fix"}

NoSink == db_companies = <<>> /\ db_departments = <<>>

InitFetch ==
    /\ script = "fetch"
    /\ response \in Responses
    /\ input \in (IF response = "ok" THEN InputLists ELSE {<<>>})
    /\ tape = Stream(0)
    /\ args = NoArgs
    /\ NoSink
    /\ table = <<>>
    /\ client = NoClient

InitComprehensive ==
    /\ script = "comprehensive"
    /\ response = "none"
    /\ input \in {l \in WellFormedLists :
                     \A i \in 1..Len(l) :
                        l[i].has_level /\ l[i].has_id /\ l[i].slug = "two-sum"}
                  \cup {WithIdx(l) : l \in SeqsUpTo(CompanyEntries, MaxProblems)}
                  \cup {codetop_data}
    /\ tape = Stream(0)
    /\ args = NoArgs
    /\ NoSink
    /\ table = <<>>
    /\ client = NoClient

\* The calls of a generator on its own. The counts read the score and the first
\* two draws only, the ratings the rank and the last three draws only: the calls
\* vary one group with the other held.
InitMetrics ==
    /\ script = "metrics"
    /\ response = "none"
    /\ input = <<>>
    /\ \/ \E g \in Generators, sc \in Scores, u1 \in Draws, u2 \in Draws :
            /\ args = [gen |-> g[1], scope |-> g[2], score |-> sc, rank |-> 1]
            /\ tape = Fixed(<<u1, u2, 0, 0, 0>>)
       \/ \E g \in Generators, r \in Ranks, u3 \in EdgeDraws, u4 \in EdgeDraws,
             u5 \in EdgeDraws :
            /\ args = [gen |-> g[1], scope |-> g[2], score |-> 976, rank |-> r]
            /\ tape = Fixed(<<0, 0, u3, u4, u5>>)
    /\ NoSink
    /\ table = <<>>
    /\ client = NoClient

\* a call of execute_mysql_command on its own: the client ends as it likes
InitRunner ==
    /\ script = "runner"
    /\ response = "none"
    /\ input = <<>>
    /\ tape = Stream(0)
    /\ args = NoArgs
    /\ NoSink
    /\ table = <<>>
    /\ \E out \in ClientOutcomes :
          client = [exit |-> out.exit, stderr |-> out.stderr, returned |-> <<>>]

\* a call of get_company_frequency_variation or of
\* get_department_frequency_variation on its own, with a name of the head and
\* one of the tail of its table, and a name the table does not list
InitVariation ==
    /\ script = "variation"
    /\ response = "none"
    /\ input = <<>>
    /\ \E sc \in Scores, u \in Draws :
          /\ \/ \E name \in {"bytedance", "xiaohongshu", "megvii"} :
                   args = [gen |-> "company_variation", scope |-> name,
                           score |-> sc, rank |-> 0]
             \/ \E name \in {"algorithm", "qa", "devops"} :
                   args = [gen |-> "department_variation", scope |-> name,
                           score |-> sc, rank |-> 0]
          /\ tape = Fixed(<<u>>)
    /\ NoSink
    /\ table = <<>>
    /\ client = NoClient

\* the body of the company loop (lines 235-258) or of the department loop
\* (lines 321-345) on its own, for one company (and one department) the sink
\* returned: the value tuples built from the random module in some state
InitValues ==
    /\ script = "values"
    /\ response = "none"
    /\ input = <<>>
    /\ \E e \in 0..DrawMax : tape = Stream(e)
    /\ \E c \in Range(COMPANIES) : db_companies = <<c>>
    /\ \/ /\ args = [gen |-> "company_values", scope |-> "COMPANY", score |-> 0, rank |-> 0]
          /\ db_departments = <<>>
       \/ /\ args = [gen |-> "dept_values", scope |-> "DEPARTMENT", score |-> 0, rank |-> 0]
          /\ \E d \in Range(DEPARTMENTS) : db_departments = <<d>>
    /\ table = <<>>
    /\ client = NoClient

\* The records generate_frequency_sql is called with on its own: well-formed
\* ones with any value and time, and the two that are not mappings where one
\* is expected. The id of a record is its position in the list.
FrequencyRecords ==
    {[kind |-> "ok", value |-> v, time |-> tm, qid |-> 0] :
        v \in {[t |-> "int", n |-> 600], [t |-> "missing", n |-> 0],
               [t |-> "none", n |-> 0], [t |-> "str", n |-> 0]},
        tm \in {[t |-> "iso", date |-> "2025-08-31"], [t |-> "missing", date |-> ""],
                [t |-> "none", date |-> ""]}}
      \cup {[kind |-> k, value |-> [t |-> "int", n |-> 600],
             time |-> [t |-> "missing", date |-> ""], qid |-> 0] :
                k \in {"not_mapping", "leetcode_not_mapping"}}

\* a call of generate_frequency_sql on its own
InitFrequency ==
    /\ script = "frequency"
    /\ response = "none"
    /\ \E l \in SeqsUpTo(FrequencyRecords, MaxRecords) :
          input = [i \in 1..Len(l) |-> [l[i] EXCEPT !.qid = i]]
    /\ tape = Stream(0)
    /\ args = NoArgs
    /\ NoSink
    /\ table = <<>>
    /\ client = NoClient

\* the characters of the titles classify_tags is called with on its own: those
\* of the keywords of lines 82 and 100 (U+6700 U+5927, with U+548C), 82 and 104
\* (U+6392 U+5E8F), 102 (U+6808) and 88 (U+6811)
TagChars == {"U+6700", "U+5927", "U+548C", "U+6392", "U+5E8F", "U+6808", "U+6811"}

\* the difficulties map_difficulty can return
Difficulties == {"EASY", "MEDIUM", "HARD"}

\* a call of classify_tags on its own
InitTags ==
    /\ script = "tags"
    /\ response = "none"
    /\ input = <<>>
    /\ tape = Stream(0)
    /\ \E title \in SeqsUpTo(TagChars, MaxTagTitleLen), difficulty \in Difficulties :
          args = [title |-> title, difficulty |-> difficulty]
    /\ NoSink
    /\ table = <<>>
    /\ client = NoClient

\* a script that talks to the database: the random module starts in whatever
\* state the interpreter gave it
InitExec ==
    /\ script \in ExecScripts
    /\ response = "none"
    /\ input = <<>>
    /\ \E e \in 0..MaxEntropy : tape = Stream(e)
    /\ args = NoArgs
    /\ db_companies \in
          CASE script = "company" -> CompanyLists
            [] script = "chinese_fix" -> {l \in CompanyLists : Len(l) <= 1}
            [] OTHER -> {<<>>}
    /\ db_departments \in
          (IF script \in {"company", "chinese_fix"} THEN DepartmentLists ELSE {<<>>})
    /\ table \in InitialTables
    /\ client = NoClient

\* the state every script starts in
Start ==
    /\ pc = "start"
    /\ data = EmptyDict
    /\ problems = <<>>
    /\ sql_lines = <<>>
    /\ output_file = NoFile
    /\ ndraws = 0
    /\ log = <<>>
    /\ batch_start = 0
    /\ total_inserted = 0
    /\ dept_inserted = 0
    /\ queries = 0
    /\ ci = 0
    /\ di = 0
    /\ all_values = <<>>
    /\ first_table = <<>>
    /\ run = 1
    /\ requests = 0
    /\ subprocesses = 0
    /\ tags = <<>>

\* one run of one of the six scripts
Init == Start /\ (InitFetch \/ InitComprehensive \/ InitExec)

\* one call of one of the three generators, of the command runner, of
\* classify_tags, or of one of the two variation functions
InitCalls ==
    Start /\ (InitMetrics \/ InitRunner \/ InitTags \/ InitVariation \/ InitValues
                 \/ InitFrequency)

(* --------------------- fetch_codetop_data.py: main -------------------- *)
\* lines 25-38: the single GET and the decoding of its body
fetch_all_problems(resp) ==
    CASE resp \in {"network_error", "bad_status", "bad_json"} -> EmptyDict
      [] resp = "empty_object" -> EmptyDict
      [] resp = "no_list" -> [nonempty |-> TRUE, has_list |-> FALSE]
      [] OTHER -> [nonempty |-> TRUE, has_list |-> TRUE]

FetchAllProblems ==
    /\ script = "fetch" /\ pc = "start"
    /\ IF response = "not_object"
       THEN \* data.get on a list or a string: AttributeError, not caught
            /\ pc' = "crashed"
            /\ UNCHANGED data
       ELSE /\ data' = fetch_all_problems(response)
            /\ pc' = "fetched"
    /\ requests' = requests + 1
    /\ UNCHANGED <<script, response, input, problems, sql_lines, output_file>>
    /\ UNCHANGED execVars
    /\ UNCHANGED <<table, first_table, run, subprocesses, client, tags>>

\* line 274 with the test left out
fetch_failed_never(d) == FALSE

\* line 274: not data or 'list' not in data
fetch_failed(d) == ~d.nonempty \/ ~d.has_list

\* lines 274-284: the guard, then problems.sort(key=lambda x: x.get('value', 0))
MainLoad ==
    /\ script = "fetch" /\ pc = "fetched"
    /\ IF fetch_failed(data)
       THEN /\ pc' = "done"
            /\ UNCHANGED problems
       ELSE IF \E i \in 1..Len(input) : input[i].kind = "not_mapping"
            THEN \* x.get on a non-mapping: AttributeError out of the sort
                 /\ pc' = "crashed"
                 /\ UNCHANGED problems
            ELSE /\ problems' = SortDesc(input)
                 /\ pc' = "sorted"
    /\ UNCHANGED <<script, response, input, data, sql_lines, output_file>>
    /\ UNCHANGED execVars
    /\ UNCHANGED envVars

\* line 290
GenerateProblemSql ==
    /\ script = "fetch" /\ pc = "sorted"
    /\ sql_lines' = generate_problem_sql(problems)
    /\ pc' = "generated"
    /\ UNCHANGED <<script, response, input, data, problems, output_file>>
    /\ UNCHANGED execVars
    /\ UNCHANGED envVars

\* lines 401-403
WriteFile ==
    /\ script = "fetch" /\ pc = "generated"
    /\ output_file' = [created |-> TRUE, lines |-> sql_lines]
    /\ pc' = "written"
    /\ UNCHANGED <<script, response, input, data, problems, sql_lines>>
    /\ UNCHANGED execVars
    /\ UNCHANGED envVars

\* lines 409-417: problem.get('leetcode', {}).get('level', 2) for every problem
PrintStats ==
    /\ script = "fetch" /\ pc = "written"
    /\ pc' = IF \E i \in 1..Len(problems) : problems[i].kind = "leetcode_not_mapping"
             THEN "crashed" ELSE "done"
    /\ UNCHANGED <<script, response, input, data, problems, sql_lines, output_file>>
    /\ UNCHANGED execVars
    /\ UNCHANGED envVars

(* ------------- generate_comprehensive_problems_sql.py: main ----------- *)
\* line 271
GenerateComprehensiveSql ==
    /\ script = "comprehensive" /\ pc = "start"
    /\ problems' = SortDesc(input)
    /\ sql_lines' = generate_comprehensive_sql(input)
    /\ pc' = "generated"
    /\ UNCHANGED <<script, response, input, data, output_file>>
    /\ UNCHANGED execVars
    /\ UNCHANGED envVars

\* lines 274-275
WriteComprehensive ==
    /\ script = "comprehensive" /\ pc = "generated"
    /\ output_file' = [created |-> TRUE, lines |-> sql_lines]
    /\ pc' = "done"
    /\ UNCHANGED <<script, response, input, data, problems, sql_lines>>
    /\ UNCHANGED execVars
    /\ UNCHANGED envVars

(* ------------------- the generators called on their own --------------- *)
metrics_of(a, t, n) ==
    CASE a.gen = "interview" -> generate_interview_metrics(a.score, a.rank, t, n)
      [] a.gen = "global" -> generate_global_metrics(a.score, a.rank, t, n)
      [] OTHER -> generate_realistic_metrics(a.score, a.scope, a.rank, t, n)

GenerateMetrics ==
    /\ script = "metrics" /\ pc = "start"
    /\ LET g == metrics_of(args, tape, ndraws)
       IN  /\ log' = Append(log, Command("call",
                         <<Row(args.gen, 0, 0, 0, args.score, args.rank, args.scope,
                               g.m, 0, 0)>>, TRUE))
           /\ ndraws' = g.n
    /\ pc' = "done"
    /\ UNCHANGED <<script, tape, args, batch_start, total_inserted, queries>>
    /\ UNCHANGED loopVars
    /\ UNCHANGED fileVars
    /\ UNCHANGED envVars

(* ----------------------- the scripts that execute --------------------- *)
\* the seeding left out: the module keeps the state it started in
seeded_stream_unseeded(t) == t

\* random.seed(42): the stream restarts from the seed, whatever it was
seeded_stream(t) == Stream(Seed)

\* inserts line 149 and chinese_fix line 232 (before main), restore line 89 and
\* company line 368 (first statement of main)
SeedRandom ==
    /\ script \in ExecScripts /\ pc = "start"
    /\ tape' = seeded_stream(tape)
    /\ ndraws' = 0
    /\ pc' = CASE script = "company" -> "setup"
               [] script = "chinese_fix" -> "fix_clear"
               [] OTHER -> "clear"
    /\ UNCHANGED <<script, args, log, batch_start, total_inserted, queries>>
    /\ UNCHANGED loopVars
    /\ UNCHANGED fileVars
    /\ UNCHANGED envVars

\* company lines 173-206: one upsert per company and per department; a failure
\* is printed and nothing else
SetupCompaniesAndDepartments ==
    /\ script = "company" /\ pc = "setup"
    /\ queries' = queries + Len(COMPANIES) + Len(DEPARTMENTS)
    /\ \E failed \in 0..(Len(COMPANIES) + Len(DEPARTMENTS)) :
         subprocesses' = subprocesses
             + client_runs(Len(COMPANIES) + Len(DEPARTMENTS) - failed, failed)
    /\ pc' = "clear"
    /\ UNCHANGED <<script, tape, ndraws, args, log, batch_start, total_inserted>>
    /\ UNCHANGED loopVars
    /\ UNCHANGED fileVars
    /\ UNCHANGED <<table, first_table, run, requests, client, tags>>

\* the counter raised by the size of the batch whatever its outcome
counted_always(counter, ok, n) == counter + n

\* inserts lines 124-126, restore 139-140, company 270-271 and 354-355, fix
\* 141-142 and 166-167: if success: counter += len(batch); nothing otherwise
counted(counter, ok, n) == IF ok THEN counter + n ELSE counter

\* main going on to the statistics whether or not the DELETE succeeded
after_clear_unguarded(s, ok) ==
    IF s = "company" THEN "company_select" ELSE "batches"

\* inserts lines 88-92, restore lines 94-98, company lines 377-381: return from
\* main if the DELETE failed, else go on to the statistics
after_clear(s, ok) ==
    IF ~ok THEN "done"
    ELSE IF s = "company" THEN "company_select" ELSE "batches"

\* inserts lines 85-92, restore lines 91-99, company lines 373-381: the DELETE,
\* and return from main if it fails
ClearStats ==
    /\ script \in {"inserts", "restore", "company"} /\ pc = "clear"
    /\ \E out \in ClientOutcomes :
        LET ok == execute_mysql_command(out).ok IN
        /\ log' = Append(log, Command("clear", <<>>, ok))
        /\ table' = IF ok THEN Cleared(script, table) ELSE table
        /\ subprocesses' = subprocesses + execute_mysql_command(out).runs
        /\ pc' = after_clear(script, ok)
    /\ UNCHANGED <<script, tape, ndraws, args, batch_start, total_inserted, queries>>
    /\ UNCHANGED loopVars
    /\ UNCHANGED fileVars
    /\ UNCHANGED <<first_table, run, requests, client, tags>>

\* where the run goes when a batch fails: break (inserts line 129) leaves the
\* loop for the verification, return (restore line 147) ends main
after_failed_batch(s) == IF s = "inserts" THEN "verify" ELSE "done"

\* inserts lines 98-129, restore lines 107-147: one iteration of the batch loop
InsertBatch ==
    /\ script \in {"inserts", "restore"} /\ pc = "batches"
    /\ batch_start < Len(frequency_data)
    /\ LET batch == SubSeq(frequency_data, batch_start + 1,
                           Min(batch_start + StatsBatch, Len(frequency_data)))
           g == global_rows(script, batch, tape, ndraws)
       IN  /\ ndraws' = g.n
           /\ \E out \in ClientOutcomes :
                LET ok == execute_mysql_command(out).ok IN
                /\ log' = Append(log, Command("insert", g.rows, ok))
                /\ table' = IF ok THEN table \o g.rows ELSE table
                /\ subprocesses' = subprocesses + execute_mysql_command(out).runs
                /\ total_inserted' = counted(total_inserted, ok, Len(batch))
                /\ IF ok
                   THEN /\ batch_start' = batch_start + StatsBatch
                        /\ pc' = IF batch_start + StatsBatch < Len(frequency_data)
                                 THEN "batches" ELSE "verify"
                   ELSE /\ pc' = after_failed_batch(script)
                        /\ UNCHANGED batch_start
    /\ UNCHANGED <<script, tape, args, queries>>
    /\ UNCHANGED loopVars
    /\ UNCHANGED fileVars
    /\ UNCHANGED <<first_table, run, requests, client, tags>>

\* company lines 212-227: the company query; on failure the function returns and
\* main goes on to the department statistics
CompanySelect ==
    /\ script = "company" /\ pc = "company_select"
    /\ queries' = queries + 1
    /\ \E out \in ClientOutcomes :
         LET ok == execute_mysql_command(out).ok IN
         /\ subprocesses' = subprocesses + execute_mysql_command(out).runs
         /\ pc' = IF ok /\ Len(db_companies) > 0 THEN "company_rows" ELSE "dept_select"
    /\ ci' = 0
    /\ UNCHANGED <<script, tape, ndraws, args, log, batch_start, total_inserted,
                   dept_inserted, db_companies, db_departments, di, all_values>>
    /\ UNCHANGED fileVars
    /\ UNCHANGED <<table, first_table, run, requests, client, tags>>

\* company lines 231-258: the variations, the sort and the value tuples of the
\* next company of companies[:10]
CompanyRows ==
    /\ script = "company" /\ pc = "company_rows"
    /\ LET g == company_values(db_companies[ci + 1], tape, ndraws)
       IN  /\ all_values' = g.rows
           /\ ndraws' = g.n
    /\ batch_start' = 0
    /\ pc' = "company_batches"
    /\ UNCHANGED <<script, tape, args, log, total_inserted, dept_inserted, queries,
                   db_companies, db_departments, ci, di>>
    /\ UNCHANGED fileVars
    /\ UNCHANGED envVars

\* a loop that leaves at the first failed batch, as the global scripts do
company_batch_stops_on_failure(ok) == ok

\* what the company loop does with a failed batch: nothing (line 275 prints)
company_batch_continues(ok) == TRUE

\* company lines 261-275: one batch of the current company
CompanyBatch ==
    /\ script = "company" /\ pc = "company_batches"
    /\ LET batch == SubSeq(all_values, batch_start + 1,
                           Min(batch_start + StatsBatch, Len(all_values)))
           more == batch_start + StatsBatch < Len(all_values)
           companies == Min(Len(db_companies), CompanyLimit)
       IN  \E out \in ClientOutcomes :
             LET ok == execute_mysql_command(out).ok IN
             /\ log' = Append(log, Command("insert", batch, ok))
             /\ table' = IF ok THEN table \o batch ELSE table
             /\ subprocesses' = subprocesses + execute_mysql_command(out).runs
             /\ total_inserted' = counted(total_inserted, ok, Len(batch))
             /\ IF ~company_batch_continues(ok)
                THEN pc' = "dept_select" /\ UNCHANGED <<batch_start, ci>>
                ELSE /\ batch_start' = IF more THEN batch_start + StatsBatch ELSE 0
                     /\ ci' = IF more THEN ci ELSE ci + 1
                     /\ pc' = IF more THEN "company_batches"
                              ELSE IF ci + 1 < companies THEN "company_rows"
                              ELSE "dept_select"
    /\ UNCHANGED <<script, tape, ndraws, args, dept_inserted, queries,
                   db_companies, db_departments, di, all_values>>
    /\ UNCHANGED fileVars
    /\ UNCHANGED <<first_table, run, requests, client, tags>>

\* the pairs the department loop visits: companies of LIMIT 5, departments[:3]
DeptCompanies == Min(Len(db_companies), DeptCompanyLimit)
DeptDepartments == Min(Len(db_departments), DeptLimit)

\* company lines 283-312: the two queries; the function returns if one fails
DeptSelect ==
    /\ script = "company" /\ pc = "dept_select"
    /\ \E outcome \in {"companies_failed", "departments_failed", "ok"} :
        /\ queries' = queries + (IF outcome = "companies_failed" THEN 1 ELSE 2)
        /\ subprocesses' = subprocesses +
               CASE outcome = "companies_failed" -> client_runs(0, 1)
                 [] outcome = "departments_failed" -> client_runs(1, 1)
                 [] OTHER -> client_runs(2, 0)
        /\ pc' = IF outcome = "ok" /\ DeptCompanies > 0 /\ DeptDepartments > 0
                 THEN "dept_rows" ELSE "verify"
    /\ ci' = 0
    /\ di' = 0
    /\ dept_inserted' = 0
    /\ UNCHANGED <<script, tape, ndraws, args, log, batch_start, total_inserted,
                   db_companies, db_departments, all_values>>
    /\ UNCHANGED fileVars
    /\ UNCHANGED <<table, first_table, run, requests, client, tags>>

\* company lines 316-360: the value tuples of the next company-department pair
\* and their single INSERT
DeptInsert ==
    /\ script = "company" /\ pc = "dept_rows"
    /\ LET g == dept_values(db_companies[ci + 1], db_departments[di + 1], tape, ndraws)
           more_depts == di + 1 < DeptDepartments
       IN  /\ ndraws' = g.n
           /\ all_values' = g.rows
           /\ \E out \in ClientOutcomes :
                LET ok == execute_mysql_command(out).ok IN
                /\ log' = Append(log, Command("insert", g.rows, ok))
                /\ table' = IF ok THEN table \o g.rows ELSE table
                /\ subprocesses' = subprocesses + execute_mysql_command(out).runs
                /\ dept_inserted' = counted(dept_inserted, ok, Len(g.rows))
           /\ di' = IF more_depts THEN di + 1 ELSE 0
           /\ ci' = IF more_depts THEN ci ELSE ci + 1
           /\ pc' = IF more_depts \/ ci + 1 < DeptCompanies THEN "dept_rows"
                    ELSE "verify"
    /\ UNCHANGED <<script, tape, args, batch_start, total_inserted, queries,
                   db_companies, db_departments>>
    /\ UNCHANGED fileVars
    /\ UNCHANGED <<first_table, run, requests, client, tags>>

\* inserts lines 131-146 (2 queries), restore lines 149-208 (3), company lines
\* 389-434 (2): the outcome of a query only decides what is printed
Verify ==
    /\ script \in {"inserts", "restore", "company"} /\ pc = "verify"
    /\ queries' = queries + (IF script = "restore" THEN 3 ELSE 2)
    /\ LET n == IF script = "restore" THEN 3 ELSE 2
       IN  \E failed \in 0..n :
             subprocesses' = subprocesses + client_runs(n - failed, failed)
    /\ pc' = "done"
    /\ UNCHANGED <<script, tape, ndraws, args, log, batch_start, total_inserted>>
    /\ UNCHANGED loopVars
    /\ UNCHANGED fileVars
    /\ UNCHANGED <<table, first_table, run, requests, client, tags>>

(* ------------------ final_chinese_data_fix.py: main ------------------- *)
\* lines 27-42: five clearing commands, the first the DELETE on
\* problem_frequency_stats; main returns at the first that fails.
\* passed is how many succeeded.
FixClear ==
    /\ script = "chinese_fix" /\ pc = "fix_clear"
    /\ \E passed \in 0..5 :
        /\ log' = Append(log, Command("clear", <<>>, passed >= 1))
        /\ table' = IF passed >= 1 THEN Cleared(script, table) ELSE table
        /\ queries' = queries + Min(passed, 4)
        /\ subprocesses' = subprocesses
               + client_runs(passed, IF passed < 5 THEN 1 ELSE 0)
        /\ pc' = IF passed = 5 THEN "fix_setup" ELSE "done"
    /\ UNCHANGED <<script, tape, ndraws, args, batch_start, total_inserted>>
    /\ UNCHANGED loopVars
    /\ UNCHANGED fileVars
    /\ UNCHANGED <<first_table, run, requests, client, tags>>

\* lines 44-87: one INSERT per company and per department; a failure is printed
FixSetup ==
    /\ script = "chinese_fix" /\ pc = "fix_setup"
    /\ queries' = queries + Len(COMPANIES) + Len(DEPARTMENTS)
    /\ \E failed \in 0..(Len(COMPANIES) + Len(DEPARTMENTS)) :
         subprocesses' = subprocesses
             + client_runs(Len(COMPANIES) + Len(DEPARTMENTS) - failed, failed)
    /\ pc' = "fix_select"
    /\ UNCHANGED <<script, tape, ndraws, args, log, batch_start, total_inserted>>
    /\ UNCHANGED loopVars
    /\ UNCHANGED fileVars
    /\ UNCHANGED <<table, first_table, run, requests, client, tags>>

\* lines 92-120: the two queries; main returns if one fails
FixSelect ==
    /\ script = "chinese_fix" /\ pc = "fix_select"
    /\ \E outcome \in {"companies_failed", "departments_failed", "ok"} :
        /\ queries' = queries + (IF outcome = "companies_failed" THEN 1 ELSE 2)
        /\ subprocesses' = subprocesses +
               CASE outcome = "companies_failed" -> client_runs(0, 1)
                 [] outcome = "departments_failed" -> client_runs(1, 1)
                 [] OTHER -> client_runs(2, 0)
        /\ pc' = IF outcome # "ok" THEN "done"
                 ELSE IF Len(db_companies) > 0 THEN "fix_company" ELSE "fix_dept"
    /\ ci' = 0
    /\ batch_start' = 0
    /\ UNCHANGED <<script, tape, ndraws, args, log, total_inserted, dept_inserted,
                   db_companies, db_departments, di, all_values>>
    /\ UNCHANGED fileVars
    /\ UNCHANGED <<table, first_table, run, requests, client, tags>>

\* lines 125-142: the INSERT of one row; batch_start counts the problems done
FixCompanyInsert ==
    /\ script = "chinese_fix" /\ pc = "fix_company"
    /\ LET row == fix_company_row(db_companies[ci + 1], batch_start + 1, tape, ndraws)
           more == batch_start + 1 < FixProblems
       IN  /\ ndraws' = ndraws + 6
           /\ \E out \in ClientOutcomes :
                LET ok == execute_mysql_command(out).ok IN
                /\ log' = Append(log, Command("insert", <<row>>, ok))
                /\ table' = IF ok THEN Append(table, row) ELSE table
                /\ subprocesses' = subprocesses + execute_mysql_command(out).runs
                /\ total_inserted' = counted(total_inserted, ok, 1)
           /\ batch_start' = IF more THEN batch_start + 1 ELSE 0
           /\ ci' = IF more THEN ci
                    ELSE IF ci + 1 < Len(db_companies) THEN ci + 1 ELSE 0
           /\ pc' = IF more \/ ci + 1 < Len(db_companies) THEN "fix_company"
                    ELSE "fix_dept"
    /\ UNCHANGED <<script, tape, args, dept_inserted, queries, db_companies,
                   db_departments, di, all_values>>
    /\ UNCHANGED fileVars
    /\ UNCHANGED <<first_table, run, requests, client, tags>>

FixDeptCompanies == Min(Len(db_companies), DeptLimit)
FixDeptDepartments == Min(Len(db_departments), DeptLimit)

\* lines 148-167: the INSERT of one row of the department loop; ci, di and
\* batch_start count the companies, departments and problems done
FixDeptInsert ==
    /\ script = "chinese_fix" /\ pc = "fix_dept"
    /\ IF FixDeptCompanies = 0 \/ FixDeptDepartments = 0
       THEN /\ pc' = "fix_verify"
            /\ UNCHANGED <<ndraws, log, dept_inserted, batch_start, ci, di,
                           table, subprocesses>>
       ELSE LET row == fix_dept_row(db_companies[ci + 1], db_departments[di + 1],
                                    batch_start + 1, tape, ndraws)
                more_problems == batch_start + 1 < FixDeptProblems
                more_depts == di + 1 < FixDeptDepartments
                more_companies == ci + 1 < FixDeptCompanies
            IN  /\ ndraws' = ndraws + 6
                /\ \E out \in ClientOutcomes :
                     LET ok == execute_mysql_command(out).ok IN
                     /\ log' = Append(log, Command("insert", <<row>>, ok))
                     /\ table' = IF ok THEN Append(table, row) ELSE table
                     /\ subprocesses' = subprocesses + execute_mysql_command(out).runs
                     /\ dept_inserted' = counted(dept_inserted, ok, 1)
                /\ batch_start' = IF more_problems THEN batch_start + 1 ELSE 0
                /\ di' = IF more_problems THEN di
                         ELSE IF more_depts THEN di + 1 ELSE 0
                /\ ci' = IF more_problems \/ more_depts THEN ci ELSE ci + 1
                /\ pc' = IF more_problems \/ more_depts \/ more_companies
                         THEN "fix_dept" ELSE "fix_verify"
    /\ UNCHANGED <<script, tape, args, total_inserted, queries, db_companies,
                   db_departments, all_values>>
    /\ UNCHANGED fileVars
    /\ UNCHANGED <<first_table, run, requests, client, tags>>

\* lines 171-221: four queries; their outcome only decides what is printed
FixVerify ==
    /\ script = "chinese_fix" /\ pc = "fix_verify"
    /\ queries' = queries + 4
    /\ \E failed \in 0..4 :
         subprocesses' = subprocesses + client_runs(4 - failed, failed)
    /\ pc' = "done"
    /\ UNCHANGED <<script, tape, ndraws, args, log, batch_start, total_inserted>>
    /\ UNCHANGED loopVars
    /\ UNCHANGED fileVars
    /\ UNCHANGED <<table, first_table, run, requests, client, tags>>

(* ------------------------- the script run again ----------------------- *)
\* the rows a run in which every command succeeds submits
ExpectedRowCount ==
    CASE script \in {"inserts", "restore"} -> Len(frequency_data)
      [] script = "company" ->
           Min(Len(db_companies), CompanyLimit) * TopProblems
               + DeptCompanies * DeptDepartments * TopDeptProblems
      [] OTHER ->
           Len(db_companies) * FixProblems
               + FixDeptCompanies * FixDeptDepartments * FixDeptProblems

\* the run has ended and every command it gave to the client succeeded
RunSucceeded ==
    /\ pc = "done"
    /\ Len(log) > 0
    /\ \A i \in 1..Len(log) : log[i].ok
    /\ Cardinality(UNION {{<<i, k>> : k \in 1..Len(log[i].rows)} : i \in 1..Len(log)})
           = ExpectedRowCount

\* The caller starts the script a second time against the same sink, after a
\* run in which every command succeeded: a new process, with the random module
\* in whatever state the interpreter gives it and every variable of main fresh.
Rerun ==
    /\ script \in ExecScripts /\ run = 1
    /\ RunSucceeded
    /\ run' = 2
    /\ first_table' = table
    /\ pc' = "start"
    /\ \E e \in 0..MaxEntropy : tape' = Stream(e)
    /\ ndraws' = 0
    /\ log' = <<>>
    /\ batch_start' = 0
    /\ total_inserted' = 0
    /\ dept_inserted' = 0
    /\ queries' = 0
    /\ subprocesses' = 0
    /\ ci' = 0
    /\ di' = 0
    /\ all_values' = <<>>
    /\ UNCHANGED <<script, args, db_companies, db_departments, table, requests, client, tags>>
    /\ UNCHANGED fileVars

(* ------------------ execute_mysql_command on its own ------------------ *)
RunCommand ==
    /\ script = "runner" /\ pc = "start"
    /\ LET r == execute_mysql_command([exit |-> client.exit, stderr |-> client.stderr])
       IN  /\ client' = [client EXCEPT !.returned = <<r.ok, r.text>>]
           /\ subprocesses' = subprocesses + r.runs
    /\ pc' = "done"
    /\ UNCHANGED <<script, tape, ndraws, args, log, batch_start, total_inserted, queries>>
    /\ UNCHANGED loopVars
    /\ UNCHANGED fileVars
    /\ UNCHANGED <<table, first_table, run, requests, tags>>

(* ------------------ the variation functions on their own ------------- *)
Vary ==
    /\ script = "variation" /\ pc = "start"
    /\ LET u == Draw(tape, ndraws + 1)
           returned == IF args.gen = "company_variation"
                       THEN get_company_frequency_variation(args.score, args.scope, u)
                       ELSE get_department_frequency_variation(args.score, args.scope, u)
       IN  log' = Append(log, Command("vary",
                     <<[name |-> args.scope, freq |-> args.score,
                        returned |-> returned]>>, TRUE))
    /\ ndraws' = ndraws + 1
    /\ pc' = "done"
    /\ UNCHANGED <<script, tape, args, batch_start, total_inserted, queries>>
    /\ UNCHANGED loopVars
    /\ UNCHANGED fileVars
    /\ UNCHANGED envVars

(* --------------- the value tuples of one scope on their own ----------- *)
BuildValues ==
    /\ script = "values" /\ pc = "start"
    /\ LET v == IF args.gen = "company_values"
                THEN company_values(db_companies[1], tape, ndraws)
                ELSE dept_values(db_companies[1], db_departments[1], tape, ndraws)
       IN  /\ all_values' = v.rows
           /\ ndraws' = v.n
    /\ pc' = "done"
    /\ UNCHANGED <<script, tape, args, log, batch_start, total_inserted, queries>>
    /\ UNCHANGED <<dept_inserted, db_companies, db_departments, ci, di>>
    /\ UNCHANGED fileVars
    /\ UNCHANGED envVars

(* ------------------ generate_frequency_sql on its own ----------------- *)
GenerateFrequencySql ==
    /\ script = "frequency" /\ pc = "start"
    /\ sql_lines' = generate_frequency_sql(input)
    /\ pc' = "done"
    /\ UNCHANGED <<script, response, input, data, problems, output_file>>
    /\ UNCHANGED execVars
    /\ UNCHANGED envVars

(* ----------------------- classify_tags on its own --------------------- *)
ClassifyTags ==
    /\ script = "tags" /\ pc = "start"
    /\ tags' = classify_tags(args.title, args.difficulty)
    /\ pc' = "done"
    /\ UNCHANGED <<script, tape, ndraws, args, log, batch_start, total_inserted, queries>>
    /\ UNCHANGED loopVars
    /\ UNCHANGED fileVars
    /\ UNCHANGED <<table, first_table, run, requests, subprocesses, client>>

(* --------------------------- specifications --------------------------- *)
Next ==
    \/ FetchAllProblems
    \/ MainLoad
    \/ GenerateProblemSql
    \/ WriteFile
    \/ PrintStats
    \/ GenerateComprehensiveSql
    \/ WriteComprehensive
    \/ SeedRandom
    \/ SetupCompaniesAndDepartments
    \/ ClearStats
    \/ InsertBatch
    \/ CompanySelect
    \/ CompanyRows
    \/ CompanyBatch
    \/ DeptSelect
    \/ DeptInsert
    \/ Verify
    \/ FixClear
    \/ FixSetup
    \/ FixSelect
    \/ FixCompanyInsert
    \/ FixDeptInsert
    \/ FixVerify
    \/ Rerun

Spec == Init /\ [][Next]_vars

NextCalls ==
    GenerateMetrics \/ RunCommand \/ ClassifyTags \/ Vary \/ BuildValues \/ GenerateFrequencySql

SpecCalls == InitCalls /\ [][NextCalls]_vars

(* ------------------------------ properties ---------------------------- *)
\* the lines of the output that carry a value tuple
ValueLines == {i \in 1..Len(sql_lines) : sql_lines[i].t \in {"value", "insert_problem"}}

\* the raw entry a value line was built from
Source(i) == input[sql_lines[i].v.src]

\* the INSERT commands submitted so far, and their value tuples
Inserts == {i \in 1..Len(log) : log[i].cmd = "insert"}
InsertedRows == UNION {Range(log[i].rows) : i \in Inserts}

Count(t) == Cardinality({i \in 1..Len(sql_lines) : sql_lines[i].t = t})
CeilDiv(n, b) == (n + b - 1) \div b

\* what the mapping is to give an entry: EASY for 1, HARD for 3, MEDIUM otherwise
ExpectedDifficulty(e) ==
    IF ~e.has_level THEN "MEDIUM"
    ELSE IF e.level = 1 THEN "EASY"
    ELSE IF e.level = 3 THEN "HARD"
    ELSE "MEDIUM"

\* C1: every emitted problems tuple, of either emitter, carries EASY for level 1,
\* MEDIUM for level 2, HARD for level 3 and MEDIUM for any other level, a
\* missing level included.
C1_DifficultyMapping ==
    \A i \in ValueLines : sql_lines[i].v.difficulty = ExpectedDifficulty(Source(i))

\* a tuple has been emitted for an entry whose level is none of 1, 2, 3
C1_Witness ==
    /\ script = "fetch"
    /\ \E i \in ValueLines : Source(i).has_level /\ Source(i).level \notin {1, 2, 3}

\* C2: every submitted row whose frequency_rank r is in 1..100 carries the
\* percentile 101 - r, never below 1, in every script that submits rows.
C2_PercentileOfRank ==
    \A r \in InsertedRows :
        r.frequency_rank \in 1..100 =>
            r.percentile = 101 - r.frequency_rank /\ r.percentile >= 1

\* the bundles the generators returned
GeneratedRows ==
    UNION {Range(log[i].rows) : i \in {j \in 1..Len(log) : log[j].cmd = "call"}}

\* C3: every bundle a generator returns has 1 <= unique_interviewers <=
\* interview_count, whatever the score, the scope and the draws.
C3_UniqueWithinCount ==
    \A r \in GeneratedRows :
        1 <= r.unique_interviewers /\ r.unique_interviewers <= r.interview_count

\* a bundle where the draw asked for more interviewers than interviews (2 \div 2
\* plus a positive draw) and the clamp took it back to the count
C3_Witness ==
    /\ pc = "done"
    /\ \E r \in GeneratedRows : r.interview_count = 2 /\ r.unique_interviewers = 2

\* how often a record of the global scripts draws: five draws of the generator,
\* then the date (inserts), or the two dates (restore)
DrawsPerRecord(s) == IF s = "inserts" THEN 6 ELSE 7

\* position of a company / department in the list the sink returned
CompanyIndex(id) == CHOOSE p \in 1..Len(db_companies) : db_companies[p].id = id
DepartmentIndex(id) == CHOOSE p \in 1..Len(db_departments) : db_departments[p].id = id

\* the draws the company loop has taken when the department loop starts: it ran
\* to its end if it ran at all
CompanyLoopDraws ==
    IF \E r \in InsertedRows : r.stats_scope = "COMPANY"
    THEN 7 * TopProblems * Min(Len(db_companies), CompanyLimit)
    ELSE 0

\* the row a second run, seeded alike and fed the same lists, builds in the place
\* of r: the generators applied to the seeded stream at the offset of r's record
SecondRun(r) ==
    LET t == Stream(Seed)
    IN  CASE script \in {"inserts", "restore"} ->
               global_row(script, frequency_data[r.problem_id], t,
                          DrawsPerRecord(script) * (r.problem_id - 1)).row
          [] script = "company" /\ r.stats_scope = "COMPANY" ->
               LET p == CompanyIndex(r.company_id)
               IN  company_values(db_companies[p], t,
                                  7 * TopProblems * (p - 1)).rows[r.frequency_rank]
          [] script = "company" /\ r.stats_scope = "DEPARTMENT" ->
               LET p == CompanyIndex(r.company_id)
                   d == DepartmentIndex(r.department_id)
                   pair == (p - 1) * DeptDepartments + (d - 1)
               IN  dept_values(db_companies[p], db_departments[d], t,
                               CompanyLoopDraws + 8 * TopDeptProblems * pair)
                       .rows[r.frequency_rank]
          [] script = "chinese_fix" /\ r.stats_scope = "COMPANY" ->
               LET p == CompanyIndex(r.company_id)
               IN  fix_company_row(db_companies[p], r.problem_id, t,
                                   6 * (FixProblems * (p - 1) + r.problem_id - 1))
          [] OTHER ->
               LET p == CompanyIndex(r.company_id)
                   d == DepartmentIndex(r.department_id)
                   pair == (p - 1) * FixDeptDepartments + (d - 1)
               IN  fix_dept_row(db_companies[p], db_departments[d], r.problem_id, t,
                                6 * FixProblems * Len(db_companies)
                                  + 6 * (FixDeptProblems * pair + r.problem_id - 1))

\* the draws a finished run has taken, counted from the rows it submitted
DrawsOfRows ==
    LET rows(scope) == Cardinality({r \in InsertedRows : r.stats_scope = scope})
    IN  CASE script \in {"inserts", "restore"} -> DrawsPerRecord(script) * rows("GLOBAL")
          [] script = "company" -> 7 * rows("COMPANY") + 8 * rows("DEPARTMENT")
          [] OTHER -> 6 * (rows("COMPANY") + rows("DEPARTMENT"))

\* C4: once seeded, a run draws from the stream of seed 42 whatever state the
\* random module started in; every row it submits is the row any other run so
\* seeded and fed the same lists builds for that record; and a finished run has
\* taken a fixed number of draws per record, whatever values were drawn.
C4_Deterministic ==
    (script \in ExecScripts /\ pc # "start") =>
        /\ tape = Stream(Seed)
        /\ \A r \in InsertedRows : r = SecondRun(r)
        /\ pc \in {"verify", "fix_verify", "done"} => ndraws = DrawsOfRows

\* a run of the company script that has submitted rows of both loops
C4_Witness ==
    /\ script = "company" /\ pc = "done"
    /\ \E r \in InsertedRows : r.stats_scope = "COMPANY" /\ r.frequency_rank = TopProblems
    /\ \E r \in InsertedRows : r.stats_scope = "DEPARTMENT"

\* C5: generate_problem_sql writes exactly ceil(N / B) INSERT headers for the N
\* value tuples it emits, so none when N = 0.
C5_BatchEmission ==
    (script = "fetch" /\ pc \in {"generated", "written", "done"}) =>
        Count("insert") = CeilDiv(Count("value"), ProblemBatch)

RECURSIVE LiteralEnd(_, _)
\* How the server reads a quoted string (default sql_mode): the index of the
\* quote that ends the literal whose body starts at s[i], 0 if none does. A
\* backslash takes the next character with it, two quotes in a row are one.
LiteralEnd(s, i) ==
    IF i > Len(s) THEN 0
    ELSE IF s[i] = Backslash THEN LiteralEnd(s, i + 2)
    ELSE IF s[i] = Quote
         THEN IF i < Len(s) /\ s[i + 1] = Quote THEN LiteralEnd(s, i + 2) ELSE i
    ELSE LiteralEnd(s, i + 1)

\* '{title}', as it stands in the statement
Embedded(title) == <<Quote>> \o title \o <<Quote, ",">>

\* C6: every emitted title that came from a title with a single quote in it is a
\* literal that ends at its own closing quote, in both emitters.
C6_QuoteEscaping ==
    \A i \in ValueLines :
        Quote \in Range(Source(i).title) =>
            LiteralEnd(Embedded(sql_lines[i].v.title), 2) = Len(sql_lines[i].v.title) + 2

\* s is in non-increasing order of score, entries of equal score in the order of
\* their keys
Ordered(s, score(_), key(_)) ==
    \A i, j \in 1..Len(s) :
        i < j => \/ score(s[i]) > score(s[j])
                 \/ score(s[i]) = score(s[j]) /\ key(s[i]) < key(s[j])

EntryScore(e) == e.value
EntryKey(e) == e.idx
RowScore(r) == r.total_frequency_score
RowKey(r) == r.problem_id
PositionOf(idx) == CHOOSE p \in 1..Len(problems) : problems[p].idx = idx

C8_FetchFailureAborts ==
    (script = "fetch"
        /\ response \in {"network_error", "bad_status", "bad_json", "no_list"}) =>
        /\ pc \in {"start", "fetched", "done"}
        /\ (pc # "start" /\ response # "no_list") => data = EmptyDict
        /\ (pc # "start" /\ response = "no_list") => ~data.has_list
        /\ problems = <<>>
        /\ sql_lines = <<>>
        /\ output_file = NoFile

\* main has returned after a body that was not JSON
C8_Witness == script = "fetch" /\ response = "bad_json" /\ pc = "done"

\* C9: a run fed a list never stops on a malformed entry, and once it has
\* generated the SQL the tuples are the well-formed entries, in order.
C9_SkipAndContinue ==
    (script = "fetch" /\ response = "ok") =>
        /\ pc # "crashed"
        /\ pc \in {"generated", "written", "done"} =>
              Count("value") = Cardinality({i \in 1..Len(input) : input[i].kind = "ok"})

\* the INSERT batches a run that got past the DELETE is to submit
ExpectedBatches ==
    IF script = "company"
    THEN Min(Len(db_companies), CompanyLimit) * CeilDiv(TopProblems, StatsBatch)
    ELSE CeilDiv(Len(frequency_data), StatsBatch)

\* C10: a run that has submitted a batch has, when it ends, submitted all of
\* them, whatever the client reported for each.
C10_FailedBatchDoesNotHalt ==
    (script \in {"inserts", "restore", "company"} /\ pc = "done"
        /\ \E r \in InsertedRows : r.stats_scope # "DEPARTMENT") =>
        Cardinality({i \in Inserts :
                        \E r \in Range(log[i].rows) : r.stats_scope # "DEPARTMENT"})
            = ExpectedBatches

\* the value lines that close a batch of the generated file
BatchEnds == {i \in 1..Len(sql_lines) : sql_lines[i].t = "value" /\ ~sql_lines[i].comma}

\* C11: every multi-row INSERT batch carries an ON DUPLICATE KEY UPDATE clause:
\* in the generated file every batch of problems tuples is followed by the
\* clause, and every INSERT into problem_frequency_stats a script submits ends
\* in one.
C11_UpsertOnEveryBatch ==
    /\ \A i \in BatchEnds : i < Len(sql_lines) /\ sql_lines[i + 1].t = "upsert"
    /\ \A i \in Inserts : log[i].upsert

\* the key tuple of a row of problem_frequency_stats
KeyOf(r) == <<r.problem_id, r.company_id, r.department_id, r.stats_scope>>

\* how many rows of the table carry the key k
RowsWithKey(k) == Cardinality({i \in 1..Len(table) : KeyOf(table[i]) = k})

\* the rows of a table, each with the number of times it occurs
BagOf(t) == [r \in Range(t) |-> Cardinality({i \in 1..Len(t) : t[i] = r})]

\* C12: when a run in which every command succeeded has ended, every key tuple
\* it inserted is in exactly one row of the table, and when that run was the
\* second in succession the table holds the rows it held after the first.
C12_ReapplyIdempotent ==
    (script \in ExecScripts /\ RunSucceeded) =>
        /\ \A r \in InsertedRows : RowsWithKey(KeyOf(r)) = 1
        /\ run = 2 => BagOf(table) = BagOf(first_table)

\* a second run of the company script has ended, every command of both runs
\* succeeded, over a table that held rows of an earlier run when the first began
C12_Witness ==
    /\ script = "company" /\ run = 2 /\ RunSucceeded
    /\ \E r \in InsertedRows : r.stats_scope = "DEPARTMENT"
    /\ \E i \in 1..Len(table) : table[i].gen = "stale"

\* C13: in every run the GET is sent at most once, whatever came back; every
\* statement given to the client started exactly one subprocess, whether it
\* succeeded or failed; and no DELETE or INSERT batch was submitted a second
\* time.
C13_NoRetry ==
    /\ requests <= 1
    /\ script = "fetch" => requests = (IF pc = "start" THEN 0 ELSE 1)
    /\ subprocesses = Len(log) + queries
    /\ \A i, j \in Inserts : i # j => log[i].rows # log[j].rows
    /\ Cardinality({i \in 1..Len(log) : log[i].cmd = "clear"}) <= 1

\* a run of the company script has ended after a batch failed and later
\* batches were submitted
C13_Witness ==
    /\ script = "company" /\ pc = "done"
    /\ \E i, j \in Inserts : i < j /\ ~log[i].ok

\* a call of execute_mysql_command on its own has returned
RunnerReturned == script = "runner" /\ pc = "done"

\* C14: execute_mysql_command returns (False, stderr) when the client exits
\* nonzero or writes to stderr, and (True, stdout) only when it exits zero and
\* wrote nothing to stderr.
C14_StderrIsFailure ==
    RunnerReturned =>
        client.returned = (IF client.exit # 0 \/ client.stderr
                           THEN <<FALSE, "stderr">> ELSE <<TRUE, "stdout">>)

\* C14, amended: execute_mysql_command returns (False, stderr) exactly when
\* the client exits with a nonzero status, and (True, stdout) whenever it exits
\* with status zero, whether or not it wrote to stderr.
C14_ExitStatusDecides ==
    RunnerReturned =>
        client.returned = (IF client.exit # 0
                           THEN <<FALSE, "stderr">> ELSE <<TRUE, "stdout">>)

\* the client exited zero after writing to stderr, and the call reported success
C14_Witness ==
    /\ RunnerReturned
    /\ client.exit = 0 /\ client.stderr
    /\ client.returned = <<TRUE, "stdout">>

\* the slug of an entry is there and is not empty
SlugPresent(e) == e.slug \notin {NoSlugKey, NullSlug, ""}

\* C15: every emitted tuple carries the URL https://leetcode.cn/problems/ + slug
\* when its entry has a non-empty slug, and otherwise .../problems/problem- +
\* the external id it is emitted with; the id is the entry's
\* frontend_question_id when it has one; level 1, slug two-sum, id 1 give EASY,
\* the URL with two-sum and leetcode_id '1'.
C15_UrlConstruction ==
    \A i \in ValueLines :
        LET e == Source(i)
            v == sql_lines[i].v
        IN  /\ v.problem_url = (IF SlugPresent(e) THEN <<UrlBase, e.slug>>
                                ELSE <<UrlBase, "problem-", v.leetcode_id>>)
            /\ e.has_id => v.leetcode_id = ToString(e.qid)
            /\ (e.has_level /\ e.level = 1 /\ e.slug = "two-sum" /\ e.has_id /\ e.qid = 1)
                   => /\ v.difficulty = "EASY"
                      /\ v.problem_url = <<UrlBase, "two-sum">>
                      /\ v.leetcode_id = "1"

\* the file holds a tuple for an entry without slug_title, its URL made from
\* the id 146
C15_Witness ==
    /\ script = "fetch" /\ pc = "done"
    /\ \E i \in ValueLines :
          /\ Source(i).slug = NoSlugKey
          /\ sql_lines[i].v.problem_url = <<UrlBase, "problem-", "146">>

\* C16: every bundle a generator returns, whatever the score, the rank, the
\* scope and the draws, has interview_count >= 1, a rating from 1.0 to 5.0, a
\* success rate from 0 to 100 and a solve time above 0 (ratings and rates in
\* tenths).
C16_BundleRanges ==
    \A r \in GeneratedRows :
        /\ r.interview_count >= 1
        /\ 10 <= r.avg_difficulty_rating /\ r.avg_difficulty_rating <= 50
        /\ 0 <= r.success_rate /\ r.success_rate <= 1000
        /\ r.avg_solve_time_minutes > 0

\* a call with score 0 whose first draw was the lowest has returned a bundle
\* with one interview
C16_Witness ==
    /\ script = "metrics" /\ pc = "done"
    /\ args.score = 0 /\ Draw(tape, 1) = 0
    /\ \E r \in GeneratedRows : r.interview_count = 1

\* C17: for every rank from 1 up, ranks above 100 included, each generator
\* returns the percentile max(1, 101 - rank), which lies above 0 and at most
\* at 101.
C17_PercentileClamped ==
    \A r \in GeneratedRows :
        /\ r.percentile = Max(1, 101 - r.frequency_rank)
        /\ 0 < r.percentile /\ r.percentile <= 101

\* divisor and spread of the interview count, by scope
Divisor(scope) == IF scope = "GLOBAL" THEN 5 ELSE 8
Spread(scope) == IF scope = "GLOBAL" THEN 5 ELSE 3

\* the draw d of uniform_int(-spread, spread) the call was made on
SpreadDraw == RandInt(-Spread(args.scope), Spread(args.scope), Draw(tape, 1))

\* C18: a generator called with raw score s returns interview_count =
\* max(1, floor(s / divisor) + d) for the draw d in -spread..spread, divisor 5
\* and spread 5 for GLOBAL, 8 and 3 for COMPANY and DEPARTMENT; hence a count
\* from max(1, s / divisor - spread) to s / divisor + spread.
C18_InterviewCountFormula ==
    (script = "metrics" /\ pc = "done") =>
        \A r \in GeneratedRows :
            LET q == args.score \div Divisor(args.scope)
            IN  /\ r.interview_count = Max(1, q + SpreadDraw)
                /\ Max(1, q - Spread(args.scope)) <= r.interview_count
                /\ r.interview_count <= q + Spread(args.scope)

\* C18, amended: the count is max(1, base + d) with base = max(1, floor(s /
\* divisor)), the quotient raised to 1 for a score below the divisor; hence a
\* count from max(1, base - spread) to base + spread, which for s = 976 and
\* GLOBAL is within 195 +- 5.
C18_InterviewCountFloored ==
    (script = "metrics" /\ pc = "done") =>
        \A r \in GeneratedRows :
            LET q == args.score \div Divisor(args.scope)
                base == IF q < 1 THEN 1 ELSE q
            IN  /\ r.interview_count = Max(1, base + SpreadDraw)
                /\ Max(1, base - Spread(args.scope)) <= r.interview_count
                /\ r.interview_count <= base + Spread(args.scope)
                /\ (args.score = 976 /\ args.scope = "GLOBAL") =>
                       190 <= r.interview_count /\ r.interview_count <= 200

\* a call with a score below the divisor on the highest draw: the count is one
\* above the spread
C18_Witness ==
    /\ script = "metrics" /\ pc = "done"
    /\ args.score = 0 /\ SpreadDraw = Spread(args.scope)
    /\ \E r \in GeneratedRows : r.interview_count = 1 + Spread(args.scope)

\* the three rank tiers: top 20, top 50, the rest
Tier(rank) == IF rank <= 20 THEN 1 ELSE IF rank <= 50 THEN 2 ELSE 3

\* the rating the generator of call a returns on the rating draw u
RatingAt(a, u) == metrics_of(a, Fixed(<<0, 0, u, 0, 0>>), 0).m.avg_difficulty_rating

\* the range the generator of call a draws the rating from: what it returns on
\* the lowest and on the highest draw
RatingRange(a) == [lo |-> RatingAt(a, 0), hi |-> RatingAt(a, DrawMax)]

\* C20: the range a generator draws avg_difficulty_rating from is the same for
\* the ranks of one tier, and against the range of any better tier neither
\* bound is lower and the range is not narrower, in every scope.
C20_RatingRangeByTier ==
    (script = "metrics" /\ pc = "done") =>
        LET here == RatingRange(args)
        IN  /\ \A r \in GeneratedRows :
                  here.lo <= r.avg_difficulty_rating /\ r.avg_difficulty_rating <= here.hi
            /\ \A rk \in Ranks :
                  LET better == RatingRange([args EXCEPT !.rank = rk])
                  IN  /\ Tier(rk) = Tier(args.rank) => better = here
                      /\ Tier(rk) < Tier(args.rank) =>
                            /\ better.lo <= here.lo
                            /\ better.hi <= here.hi
                            /\ better.hi - better.lo <= here.hi - here.lo

\* the rules of which a keyword occurs in the title
MatchingRules(title) ==
    {k \in DOMAIN TagRules : \E word \in TagRules[k].words : Occurs(word, title)}

\* the position of a tag's rule in the rule order, 0 for a tag of no rule
RuleOf(tag) ==
    IF \E k \in DOMAIN TagRules : TagRules[k].tag = tag
    THEN CHOOSE k \in DOMAIN TagRules : TagRules[k].tag = tag
    ELSE 0

\* the tag a title matching no rule gets: U+57FA U+7840 U+7B97 U+6CD5 for
\* EASY, U+9AD8 U+7EA7 U+7B97 U+6CD5 for HARD, U+7B97 U+6CD5 otherwise
FallbackTag(difficulty) ==
    IF difficulty = "EASY" THEN "U+57FAU+7840U+7B97U+6CD5"
    ELSE IF difficulty = "HARD" THEN "U+9AD8U+7EA7U+7B97U+6CD5"
    ELSE "U+7B97U+6CD5"

\* C19: classify_tags returns a non-empty list; every rule of which a keyword
\* occurs in the title contributes its tag, also after an earlier rule has
\* matched; the contributed tags stand in rule order, whatever the order of the
\* keywords in the title; and the list is the default tag of the difficulty
\* alone exactly when no rule matches.
C19_TagInference ==
    (script = "tags" /\ pc = "done") =>
        LET matching == MatchingRules(args.title)
        IN  /\ Len(tags) >= 1
            /\ \A k \in matching : \E i \in DOMAIN tags : tags[i] = TagRules[k].tag
            /\ matching # {} =>
                   /\ \A i \in DOMAIN tags : RuleOf(tags[i]) \in matching
                   /\ \A i, j \in DOMAIN tags : i < j => RuleOf(tags[i]) < RuleOf(tags[j])
            /\ (matching = {}) <=> (tags = <<FallbackTag(args.difficulty)>>)
            /\ args.title = <<"U+6808", "U+6392", "U+5E8F">> =>
                   tags = <<"U+6570U+7EC4", "U+6808", "U+6392U+5E8F">>
            /\ args.title = <<"U+6700", "U+5927", "U+548C">> =>
                   tags = <<"U+6570U+7EC4", "U+52A8U+6001U+89C4U+5212">>
            /\ args.title = <<"U+548C", "U+5927", "U+6700">> =>
                   tags = <<FallbackTag(args.difficulty)>>

\* a title whose keywords stand against the rule order (the keyword of the
\* eleventh rule before that of the first and twelfth): three rules contributed
C19_Witness ==
    /\ script = "tags" /\ pc = "done"
    /\ args.title = <<"U+6808", "U+6392", "U+5E8F">>
    /\ Len(tags) = 3

\* the three difficulty tiers of a rating in tenths: up to 2.5, up to 3.5, above
DifficultyTier(rating) == IF rating <= 25 THEN 1 ELSE IF rating <= 35 THEN 2 ELSE 3

\* the bundles the generator of the call returns for the ranks 1, 21 and 51 (one
\* of each rank tier) on the lowest, the middle and the highest of the last
\* three draws
OtherBundles ==
    {metrics_of([args EXCEPT !.rank = rank], Fixed(<<0, 0, u3, u4, u5>>), 0).m :
        rank \in {1, 21, 51}, u3 \in EdgeDraws, u4 \in EdgeDraws, u5 \in EdgeDraws}

\* C21: of two bundles of one generator, the one of the strictly lower
\* difficulty tier (rating up to 2.5, up to 3.5, above) has the strictly
\* higher success rate and the strictly shorter solve time: the ranges of the
\* tiers are disjoint.
C21_TiersDisjoint ==
    (script = "metrics" /\ pc = "done") =>
        \A r \in GeneratedRows : \A m \in OtherBundles :
            DifficultyTier(r.avg_difficulty_rating) < DifficultyTier(m.avg_difficulty_rating) =>
                /\ r.success_rate > m.success_rate
                /\ r.avg_solve_time_minutes < m.avg_solve_time_minutes

\* the result of a variation function for a multiplier in hundredths and a
\* variation that goes from lo to lo + width hundredths with the draw u
ExpectedVariation(freq, multiplier, lo, width, u) ==
    LET scaled == (freq * multiplier * (lo + (width * u) \div DrawMax)) \div 10000
    IN  IF scaled < 1 THEN 1 ELSE scaled

\* the multipliers of the names used here, in hundredths: 1.2, 0.9 and 0.7 of
\* the company table, 1.0, 1.3 and 0.6 of the department table, 0.8 for a name
\* neither table lists
ExpectedMultiplier(name) ==
    CASE name = "bytedance" -> 120
      [] name = "microsoft" -> 90
      [] name = "xiaohongshu" -> 70
      [] name = "backend" -> 100
      [] name = "algorithm" -> 130
      [] name = "qa" -> 60
      [] OTHER -> 80

\* the frequencies a problem of the given global frequency can get in a company
CompanyFreqs(freq, company_name) ==
    {ExpectedVariation(freq, ExpectedMultiplier(company_name), 80, 40, u) : u \in Draws}

\* ... and in a department of that company
DeptFreqs(freq, company_name, dept_name) ==
    {ExpectedVariation(cf, ExpectedMultiplier(dept_name), 85, 30, u) :
        cf \in CompanyFreqs(freq, company_name), u \in Draws}

\* the calls of a variation function made on its own
VariationCalls == UNION {Range(log[i].rows) : i \in {j \in 1..Len(log) : log[j].cmd = "vary"}}

\* C22: a variation function multiplies by the table's multiplier for a listed
\* name and by 0.8 for an unlisted one, and returns an integer of at least 1
\* for every frequency from 0 up and every draw; the value tuples of a company
\* or department carry the multiplied frequency as total_frequency_score, are
\* ranked by it, and have their metrics computed from it.
C22_Multiplier ==
    /\ (script = "variation" /\ pc = "done") =>
          \A c \in VariationCalls :
              /\ c.returned \in Nat /\ c.returned >= 1
              /\ c.returned =
                    (IF args.gen = "company_variation"
                     THEN ExpectedVariation(c.freq, ExpectedMultiplier(c.name), 80, 40, Draw(tape, 1))
                     ELSE ExpectedVariation(c.freq, ExpectedMultiplier(c.name), 85, 30, Draw(tape, 1)))
    /\ (script = "values" /\ pc = "done") =>
          /\ \A k \in 1..Len(all_values) :
                LET r == all_values[k]
                    base == IF r.total_frequency_score \div 8 < 1 THEN 1
                            ELSE r.total_frequency_score \div 8
                IN  /\ r.total_frequency_score \in
                          (IF args.gen = "company_values"
                           THEN CompanyFreqs(PROBLEM_FREQUENCIES[r.problem_id],
                                             db_companies[1].name)
                           ELSE DeptFreqs(PROBLEM_FREQUENCIES[r.problem_id],
                                          db_companies[1].name, db_departments[1].name))
                    /\ r.frequency_rank = k
                    /\ r.interview_count >= base - 3 /\ r.interview_count <= base + 3
                    /\ r.percentile = 101 - k
          /\ \A j, k \in 1..Len(all_values) :
                j < k => all_values[j].total_frequency_score >= all_values[k].total_frequency_score

\* the value tuples of a listed company where the multiplied frequencies put
\* another problem than the globally most frequent one on rank 1
C22_Witness ==
    /\ script = "values" /\ pc = "done"
    /\ args.gen = "company_values" /\ db_companies[1].name = "bytedance"
    /\ Len(all_values) = TopProblems
    /\ all_values[1].problem_id # 1

\* C23: in every script that executes statements through the client, every
\* command handed to the client starts with SET NAMES utf8mb4.
C23_SetNamesOnEveryCommand ==
    script \in ExecScripts => \A i \in 1..Len(log) : log[i].set_names

\* the statements of the generated script that insert a problem, a company, an
\* association
StatementsOf(t) == {i \in 1..Len(sql_lines) : sql_lines[i].t = t}

\* C24: no two problem rows that generate_comprehensive_sql emits for its
\* embedded data set carry the same leetcode_id.
C24_UniqueLeetcodeId ==
    (script = "comprehensive" /\ pc \in {"generated", "done"} /\ input = codetop_data) =>
        \A i, j \in StatementsOf("insert_problem") :
            i # j => sql_lines[i].v.leetcode_id # sql_lines[j].v.leetcode_id

\* the commands of the kind given to the client so far
CommandsOf(cmd) == {i \in 1..Len(log) : log[i].cmd = cmd}

\* C25: in each of the four scripts that execute their statements, a run whose
\* clearing DELETE failed has ended, and has submitted no INSERT into
\* problem_frequency_stats.
C25_ClearBeforeInsert ==
    \A i \in CommandsOf("clear") :
        ~log[i].ok => pc = "done" /\ CommandsOf("insert") = {} /\ i = Len(log)

\* the clearing DELETE of the company script has failed, after the setup
C25_Witness ==
    /\ script = "company" /\ pc = "done"
    /\ \E i \in CommandsOf("clear") : ~log[i].ok
    /\ subprocesses > 1

\* the rows of a table in GLOBAL scope, and those in any other scope
GlobalRows(t) == SelectSeq(t, LAMBDA row : row.stats_scope = "GLOBAL")
ScopedRows(t) == SelectSeq(t, LAMBDA row : row.stats_scope # "GLOBAL")

\* C26: no step of a run that regenerates the GLOBAL statistics (inserts,
\* restore) changes the COMPANY and DEPARTMENT rows of the sink, and no step of
\* a run that regenerates the COMPANY / DEPARTMENT statistics (company,
\* chinese_fix) changes its GLOBAL rows.
C26_ScopeIsolation ==
    [][/\ script \in {"inserts", "restore"} => ScopedRows(table') = ScopedRows(table)
       /\ script \in {"company", "chinese_fix"} => GlobalRows(table') = GlobalRows(table)]_vars

\* how many rows the batches of the given scopes that succeeded so far held
RowsApplied(scopes) ==
    Cardinality(UNION {{<<i, k>> : k \in 1..Len(log[i].rows)} :
                          i \in {j \in CommandsOf("insert") :
                                    log[j].ok /\ log[j].rows[1].stats_scope \in scopes}})

\* C27: at every point of a run that executes its statements, the counter of
\* the GLOBAL or COMPANY loop (total_inserted, total_generated,
\* company_stats_count) and the counter of the DEPARTMENT loop (total_generated,
\* dept_stats_count) equal the number of rows in the batches of that loop that
\* succeeded so far: a failed batch adds nothing and takes nothing away.
C27_SuccessCounter ==
    script \in ExecScripts =>
        /\ total_inserted = RowsApplied({"GLOBAL", "COMPANY"})
        /\ dept_inserted = RowsApplied({"DEPARTMENT"})

\* a batch failed after one that succeeded, and the counter stands at the rows
\* of the first
C27_Witness ==
    /\ script \in ExecScripts
    /\ \E i, j \in CommandsOf("insert") : i < j /\ log[i].ok /\ ~log[j].ok
    /\ total_inserted > 0

\* the problem statement of the generated script that inserts the given id
ProblemStatement(id) ==
    CHOOSE i \in StatementsOf("insert_problem") : sql_lines[i].v.id = id

\* C28: in the script generate_comprehensive_sql generates, the problem ids are
\* exactly 1..N and ascend as the frequency descends, the company ids are
\* exactly 1..K, the association ids count from 1, every association names a
\* problem and a company the script inserts (the company of that problem, with
\* the problem's frequency), and a problem has an association exactly when its
\* company name is neither empty nor 'null'.
C28_ReferentialIntegrity ==
    (script = "comprehensive" /\ pc \in {"generated", "done"}) =>
        LET P == StatementsOf("insert_problem")
            C == StatementsOf("insert_company")
            A == StatementsOf("insert_association")
            named == {input[k].company_name : k \in 1..Len(input)} \ {"", "null"}
        IN  /\ {sql_lines[i].v.id : i \in P} = 1..Len(input)
            /\ Cardinality(P) = Len(input)
            /\ \A i, j \in P :
                  sql_lines[i].v.id < sql_lines[j].v.id =>
                      /\ i < j
                      /\ Source(i).value >= Source(j).value
            /\ {sql_lines[i].v.id : i \in C} = 1..Cardinality(named)
            /\ {sql_lines[i].v.company : i \in C} = named
            /\ Cardinality(C) = Cardinality(named)
            /\ {sql_lines[i].v.id : i \in A} = 1..Cardinality(A)
            /\ \A i, j \in A : i < j => sql_lines[i].v.id < sql_lines[j].v.id
            /\ \A a \in A :
                  /\ sql_lines[a].v.problem_id \in 1..Len(input)
                  /\ \E c \in C :
                        /\ sql_lines[c].v.id = sql_lines[a].v.company_id
                        /\ sql_lines[c].v.company =
                              Source(ProblemStatement(sql_lines[a].v.problem_id)).company_name
                  /\ sql_lines[a].v.frequency_score =
                        Source(ProblemStatement(sql_lines[a].v.problem_id)).value
            /\ \A i \in P :
                  Cardinality({a \in A : sql_lines[a].v.problem_id = sql_lines[i].v.id})
                      = (IF Source(i).company_name \in {"", "null"} THEN 0 ELSE 1)

\* the script generated from the embedded data set: a hundred problems, two
\* companies, and eighty associations for the problems whose company is not
\* 'null'
C28_Witness ==
    /\ script = "comprehensive" /\ pc = "done" /\ input = codetop_data
    /\ Cardinality(StatementsOf("insert_problem")) = 100
    /\ Cardinality(StatementsOf("insert_company")) = 2
    /\ Cardinality(StatementsOf("insert_association")) = 80

\* the leetcode ids of the WHEN branches of CASE c, in the order of the branches
BranchIds(c) ==
    LET branches == SelectSeq(sql_lines, LAMBDA l : l.t = "when" /\ l.case = c)
    IN  [k \in 1..Len(branches) |-> branches[k].leetcode_id]

\* C29: for every list of records, those with a missing or non-integer value
\* or time included, the three CASE expressions generate_frequency_sql builds
\* have WHEN branches for the same leetcode ids in the same order, and only for
\* records among the first 50 of the list.
C29_ConsistentSkipping ==
    (script = "frequency" /\ pc = "done") =>
        /\ BranchIds(1) = BranchIds(2)
        /\ BranchIds(2) = BranchIds(3)
        /\ \A c \in 1..3 : \A k \in 1..Len(BranchIds(c)) : BranchIds(c)[k] <= FrequencyLimit

\* the INSERT commands of the company loop, in the order of their submission
CompanyInserts ==
    SelectSeq(log, LAMBDA c : c.cmd = "insert" /\ c.rows[1].stats_scope = "COMPANY")

\* the batches the company loop cuts the value tuples of one company into
BatchesPerCompany == CeilDiv(TopProblems, StatsBatch)

\* the rows of the k-th INSERT of the company loop in a run seeded alike and fed
\* the same company list where every command succeeds: the batch of the value
\* tuples of its company, built on the seeded stream at the offset of that company
BatchOfPosition(k) ==
    LET p == (k - 1) \div BatchesPerCompany + 1
        b == (k - 1) % BatchesPerCompany
        values == company_values(db_companies[p], Stream(Seed), 7 * TopProblems * (p - 1)).rows
    IN  SubSeq(values, b * StatsBatch + 1, Min((b + 1) * StatsBatch, Len(values)))

\* C30: in generate_company_frequency_stats the rows of every submitted batch
\* are those the seed and the company list determine for its position, whatever
\* the outcome of the batches submitted before it, and once the loop has run a
\* run has submitted every batch of every company: runs that differ only in
\* which batches fail submit the same statements.
C30_ValuesIgnoreOutcomes ==
    script = "company" =>
        /\ \A k \in 1..Len(CompanyInserts) : CompanyInserts[k].rows = BatchOfPosition(k)
        /\ (Len(CompanyInserts) > 0 /\ pc \in {"dept_select", "dept_rows", "verify", "done"}) =>
               Len(CompanyInserts) = BatchesPerCompany * Min(Len(db_companies), CompanyLimit)

\* a run where the first batch of the company loop failed and the batches of a
\* second company were submitted after it
C30_Witness ==
    /\ script = "company" /\ pc = "done"
    /\ Len(CompanyInserts) > BatchesPerCompany
    /\ ~CompanyInserts[1].ok
====
